---- MODULE Spec2Model ----
(***************************************************************************)
(* k2p: the capture-and-heuristics pipeline.                               *)
(*                                                                         *)
(*   RetryWithBackoff      kiro/internal/orchestrator/retry.go             *)
(*   detectPageTurnDirection, capturePages, ConvertCurrentBook             *)
(*                         internal/orchestrator/orchestrator.go           *)
(*                                                                         *)
(* RetryWithBackoff is modelled once, as the steps of its loop; the        *)
(* session calls it with a continuation label (caller), the specification  *)
(* SpecRetry runs it alone on a scripted fn.                               *)
(***************************************************************************)
EXTENDS Integers, Sequences, FiniteSets, TLC

VARIABLES
    cancelled,    \* ctx.Done() is closed
    cancelAt,     \* history: where the control was when the signal fired
    cfg,          \* RetryConfig of the running RetryWithBackoff
    rpc,          \* position inside RetryWithBackoff
    attempt,      \* loop variable of RetryWithBackoff
    delay,        \* local delay of RetryWithBackoff
    lastErr,      \* local lastErr of RetryWithBackoff
    rerr,         \* value returned by RetryWithBackoff
    calls,        \* history: calls of fn made by the running invocation
    slept,        \* history: durations slept by the running invocation
    caller,       \* who called RetryWithBackoff (continuation)
    fnPlan,       \* scripted fn of SpecRetry: outcome of its i-th call
    opt,          \* ConversionOptions of the session
    book,         \* the external reader: what it shows and which key advances it
    pos,          \* the page the reader displays (0 = where the session started)
    pc,           \* position of the session outside RetryWithBackoff
    probe,        \* locals of detectPageTurnDirection: key under test, i, paths
    probeOutcome, \* history: how detectPageTurnDirection returned
    direction,    \* local direction of capturePages
    screenshots,  \* local screenshots of capturePages
    pageNum,      \* local pageNum of capturePages
    lastShot,     \* the file written by the latest successful capture
    loopCaptures, \* history: per-page captures that succeeded in the loop
    loopTurns,    \* history: page-turn inputs that succeeded in the loop
    endCheck,     \* history: the latest end-of-book check of the loop
    capRet,       \* what capturePages returned
    tempDir,      \* the session's temporary directory
    pdfInput,     \* the page list handed to CreatePDF, if it was called
    result,       \* what ConvertCurrentBook returned
    cancelSeen,   \* history: a cancellation check of the session has seen the signal
    callAfterCancel, \* history: an external call was issued after cancelSeen
    turnedSince,  \* history: a page-turn input succeeded since the latest capture
    lastShotFresh, \* history: a page-turn input succeeded between the two latest captures
    probeHist,    \* history: inputs and captures of detectPageTurnDirection
    debugDir,     \* the files in the directory debug_samples
    pureIn,       \* arguments of the function under test (SpecCompare)
    pureOut,      \* its result
    allMarginsLen, \* len(allMargins) of capturePages; entry i is of page_i
    trimmedScreenshots, \* local trimmedScreenshots of ConvertCurrentBook
    loopDirs      \* history: the direction values the loop passed to TurnNextPage

rvars == <<cancelled, cancelAt, cfg, rpc, attempt, delay, lastErr, rerr, calls, slept, caller, fnPlan>>

svars == <<opt, book, pos, pc, probe, probeOutcome, direction, screenshots, pageNum, lastShot,
           loopCaptures, loopTurns, endCheck, capRet, tempDir, pdfInput, result>>

hvars == <<cancelSeen, callAfterCancel, turnedSince, lastShotFresh, probeHist, debugDir>>

pvars == <<pureIn, pureOut>>

tvars == <<allMarginsLen, trimmedScreenshots, loopDirs>>

vars == <<rvars, svars, hvars, pvars, tvars>>

----------------------------------------------------------------------------
(* Errors: a chain of wrapped errors, outermost first; nil is the empty chain *)

Nil == <<>>

Err(msg, n) == <<[msg |-> msg, n |-> n]>>

\* fmt.Errorf("msg ...: %w", err)
Wrap(msg, n, err) == Err(msg, n) \o err

\* errors.Is(err, target) for a leaf target
Wraps(err, leaf) == err # Nil /\ leaf # Nil /\ Len(err) >= Len(leaf)
                    /\ SubSeq(err, Len(err) - Len(leaf) + 1, Len(err)) = leaf

CtxErr == Err("context canceled", 0)

E1 == Err("E1", 0)

E2 == Err("E2", 0)

Min(a, b) == IF a <= b THEN a ELSE b

----------------------------------------------------------------------------
(* Bounds of the model *)

MaxAttemptsBound == 3

MaxDelayBound == 3

----------------------------------------------------------------------------
(* RetryWithBackoff *)

\* DefaultRetryConfig, durations in milliseconds, the multiplier in halves
DefaultRetryConfig == [MaxAttempts |-> 3, InitialDelay |-> 100, MaxDelay |-> 2000, Multiplier2 |-> 4]

\* the case <-ctx.Done() of the select at the head of each attempt
CtxDoneNever(c) == FALSE

CtxDone(c) == c

\* the loop condition attempt <= config.MaxAttempts
LoopCondOffByOne(a, c) == a <= c.MaxAttempts + 1

LoopCond(a, c) == a <= c.MaxAttempts

\* "Don't sleep after last attempt": attempt < config.MaxAttempts
SleepsAfter(a, c) == a < c.MaxAttempts

\* delay = time.Duration(float64(delay) * config.Multiplier), capped at MaxDelay
NextDelay(d, c) ==
    LET grown == (d * c.Multiplier2) \div 2
    IN  IF grown > c.MaxDelay THEN c.MaxDelay ELSE grown

\* the final return of RetryWithBackoff
ExhaustedErrNotWrapping(c, last) == Err("operation failed after attempts", c.MaxAttempts)

ExhaustedErr(c, last) == Wrap("operation failed after attempts", c.MaxAttempts, last)

\* entry of RetryWithBackoff(ctx, config, fn): the locals before the loop
RetryEnter(c, config) ==
    /\ cfg' = config
    /\ rpc' = "check"
    /\ attempt' = 1
    /\ delay' = config.InitialDelay
    /\ lastErr' = Nil
    /\ rerr' = Nil
    /\ calls' = 0
    /\ slept' = <<>>
    /\ caller' = c

\* head of an iteration: the loop condition, then the cancellation check
RetryCheckStep ==
    /\ rpc = "check"
    /\ IF ~LoopCond(attempt, cfg)
         THEN rpc' = "ret" /\ rerr' = ExhaustedErr(cfg, lastErr)
         ELSE IF CtxDone(cancelled)
                THEN rpc' = "ret" /\ rerr' = CtxErr
                ELSE rpc' = "call" /\ rerr' = rerr
    /\ UNCHANGED <<cancelled, cancelAt, cfg, attempt, delay, lastErr, calls, slept, caller, fnPlan>>

KeepFirstErr(prev, err) == IF prev = Nil THEN err ELSE prev

\* lastErr = err
KeepLastErr(prev, err) == err

\* err := fn() has returned err: lines 41-57 up to the sleep
RetryAfterCall(err) ==
    /\ rpc = "call"
    /\ calls' = calls + 1
    /\ IF err = Nil
         THEN rpc' = "ret" /\ rerr' = Nil /\ UNCHANGED <<lastErr, attempt>>
         ELSE /\ lastErr' = KeepLastErr(lastErr, err)
              /\ rerr' = rerr
              /\ IF SleepsAfter(attempt, cfg)
                   THEN rpc' = "sleep" /\ attempt' = attempt
                   ELSE rpc' = "check" /\ attempt' = attempt + 1
    /\ UNCHANGED <<cancelled, cancelAt, cfg, delay, slept, caller, fnPlan>>

\* time.Sleep(delay), the next delay, and attempt++
RetrySleepStep ==
    /\ rpc = "sleep"
    /\ slept' = Append(slept, delay)
    /\ delay' = NextDelay(delay, cfg)
    /\ attempt' = attempt + 1
    /\ rpc' = "check"
    /\ UNCHANGED <<cancelled, cancelAt, cfg, lastErr, rerr, calls, caller, fnPlan>>

----------------------------------------------------------------------------
(* SpecRetry: RetryWithBackoff alone, on a scripted fn *)

FnOutcomes == {Nil, E1, E2}

RetryConfigs ==
    [MaxAttempts : 0..MaxAttemptsBound, InitialDelay : 1..MaxDelayBound,
     MaxDelay : 1..MaxDelayBound, Multiplier2 : {2, 3, 4}]

\* the i-th call of the scripted fn
FnResult(i) == IF i \in DOMAIN fnPlan THEN fnPlan[i] ELSE fnPlan[Len(fnPlan)]

\* index of the first call of fn that succeeds, beyond every bound if none does
FirstOk == IF \E i \in DOMAIN fnPlan : fnPlan[i] = Nil
             THEN CHOOSE i \in DOMAIN fnPlan : fnPlan[i] = Nil /\ \A j \in 1..(i - 1) : fnPlan[j] # Nil
             ELSE MaxAttemptsBound + 10

\* where RetryWithBackoff stands, for the history variable cancelAt
RetryPoint ==
    CASE rpc = "check" /\ LoopCond(attempt, cfg) -> "beforeAttempt"
      [] rpc = "check" -> "noAttempt"
      [] rpc = "call" -> "inCall"
      [] rpc = "sleep" -> "inSleep"
      [] OTHER -> "outside"

----------------------------------------------------------------------------
(* Images and CompareImages *)

\* the images of the model: what a screenshot file can hold
ImgEnd == "end"

ImgA == "A"

ImgB == "B"

ImgC == "C"

ImgDummy == "dummy"

\* images of other dimensions (a window that was resized)
ImgWide == "wide"

ImgTall == "tall"

ImgBig == "big"

\* png.Decode of the file: ImgDummy is no PNG (a capturer that writes other bytes)
Decodes(img) == img # ImgDummy

\* bounds of the decoded image
ImgWidth == 200

ImgHeight == 10

\* img.Bounds().Dx() and img.Bounds().Dy()
Dx(img) == IF img \in {ImgWide, ImgBig} THEN 2 * ImgWidth ELSE ImgWidth

Dy(img) == IF img \in {ImgTall, ImgBig} THEN 2 * ImgHeight ELSE ImgHeight

\* "Sample every 10th pixel"
SampleStride == 10

\* per-channel tolerance of CompareImages
PixelTolerance == 30

\* img.At(x, y), 8 bits per channel: ImgC is ImgA with one sampled pixel changed
PixelAt(img, x, y) ==
    CASE img = ImgEnd -> <<255, 255, 255>>
      [] img = ImgA -> <<0, 0, 0>>
      [] img = ImgB -> <<100, 200, 100>>
      [] img = ImgC -> IF x = 0 /\ y = 0 THEN <<0, 0, 200>> ELSE <<20, 0, 10>>
      [] img = ImgWide -> <<0, 0, 0>>
      [] img = ImgTall -> <<100, 200, 100>>
      [] img = ImgBig -> <<255, 255, 255>>
      [] OTHER -> <<0, 0, 0>>

absUint32OneSided(a, b) == IF a > b THEN a - b ELSE 0

\* absUint32 returns absolute difference
absUint32(a, b) == IF a > b THEN a - b ELSE b - a

\* the points the loops over bounds1 visit
SamplePoints(img) ==
    {<<i * SampleStride, j * SampleStride>> :
        i \in 0..((Dx(img) - 1) \div SampleStride), j \in 0..((Dy(img) - 1) \div SampleStride)}

PixelsMatch(p, q) ==
    /\ absUint32(p[1], q[1]) <= PixelTolerance
    /\ absUint32(p[2], q[2]) <= PixelTolerance
    /\ absUint32(p[3], q[3]) <= PixelTolerance

\* CompareImages(img1Path, img2Path): the similarity as the fraction
\* matchCount / totalCount, and the error of a file that does not decode;
\* "Check if dimensions match": return 0, nil
CompareImages(a, b) ==
    IF ~Decodes(a) \/ ~Decodes(b)
      THEN [matchCount |-> 0, totalCount |-> 1, err |-> Err("png: invalid format", 0)]
    ELSE IF Dx(a) # Dx(b) \/ Dy(a) # Dy(b)
      THEN [matchCount |-> 0, totalCount |-> 1, err |-> Nil]
      ELSE [matchCount |-> Cardinality({s \in SamplePoints(a) :
                                          PixelsMatch(PixelAt(a, s[1], s[2]), PixelAt(b, s[1], s[2]))}),
            totalCount |-> Cardinality(SamplePoints(a)),
            err |-> Nil]

\* similarity < t/1000 for the float64 matchCount / totalCount
SimilarityBelow(c, t) == c.matchCount * 1000 < t * c.totalCount

----------------------------------------------------------------------------
(* The external reader *)

MaxBook == 2

ContentImgs == {ImgA, ImgB, ImgC}

\* every file CompareImages can be given
AllImgs == {ImgEnd, ImgA, ImgB, ImgC, ImgDummy, ImgWide, ImgTall, ImgBig}

SeqsUpTo(S, n) == UNION {[1..k -> S] : k \in 0..n}

\* a reader: the content pages of its book, then what follows them: a static end
\* screen ("end"), captures that never decode ("dummy": a capturer that writes no
\* PNG), or pages without end ("endless"); fwd is the key that advances it, and
\* flaky says whether calls of the capturer and of the automation can fail
Reader(p, t, f, fl) == [pages |-> p, tail |-> t, fwd |-> f, flaky |-> fl]

ShortBooks ==
    {Reader(p, "end", f, FALSE) : p \in SeqsUpTo(ContentImgs, MaxBook), f \in {"right", "left", "none"}}

FlakyBooks ==
    {Reader(p, "end", f, TRUE) : p \in {<<>>, <<ImgA, ImgB>>}, f \in {"right", "left", "none"}}

LongBooks == {Reader(<<>>, "dummy", "none", FALSE), Reader(<<>>, "endless", "right", FALSE)}

\* readers for the sessions with custom trimming: among the pages some whose
\* capture cannot be decoded, and one captured while the window had another size
TrimBooks ==
    {Reader(p, "end", f, FALSE) : p \in {<<ImgA, ImgDummy>>, <<ImgDummy, ImgB>>, <<ImgA, ImgB>>,
                                         <<ImgA, ImgWide>>},
                                  f \in {"right", "left"}}

Books == ShortBooks \cup FlakyBooks \cup LongBooks \cup TrimBooks

\* outcomes of a collaborator call: success (TRUE) or an error (FALSE)
CallOutcomes == IF book.flaky THEN BOOLEAN ELSE {TRUE}

\* what the reader shows at position p
Screen(p) ==
    IF p < Len(book.pages) THEN book.pages[p + 1]
    ELSE CASE book.tail = "end" -> ImgEnd
           [] book.tail = "dummy" -> ImgDummy
           [] OTHER -> IF (p - Len(book.pages)) % 2 = 0 THEN ImgA ELSE ImgB

\* TurnNextPage sends key code 123 for "left" and 124 for anything else
KeyOf(d) == IF d = "left" THEN "left" ELSE "right"

\* the reader's reaction to a key
Move(p, key) ==
    IF book.fwd = "none" THEN p
    ELSE IF key = book.fwd THEN p + 1
    ELSE IF p > 0 THEN p - 1 ELSE 0

ECapture == Err("failed to capture screenshot", 0)

ETurn == Err("failed to turn page", 0)

\* TurnNextPage: "Kindle is not in foreground - terminating ..."
ENotForeground == Err("Kindle is not in foreground", 0)

\* what a call of TurnNextPage returns
TurnOutcomes == IF book.flaky THEN {Nil, ETurn, ENotForeground} ELSE {Nil}

\* the copy of a probe screenshot in debug_samples
DebugFile(kind, n) == <<kind, n>>

----------------------------------------------------------------------------
(* detectPageTurnDirection *)

\* N of "press 3 times"
ProbePresses == 3

\* the images a file can hold, and the captures that write files
ImgList == <<ImgEnd, ImgA, ImgB, ImgC, ImgDummy, ImgWide, ImgTall, ImgBig>>

KindList == <<"none", "detect_cover", "detect_right", "detect_left", "page", "trimmed">>

IndexOf(l, v) == CHOOSE i \in 1..Len(l) : l[i] = v

\* a screenshot file, named by one number that packs which capture wrote it
\* (kind and n, as in page_%04d.png) and the image it holds
Shot(kind, n, img) ==
    (n * Len(KindList) + IndexOf(KindList, kind) - 1) * Len(ImgList) + IndexOf(ImgList, img) - 1

\* the image a screenshot file holds
ImgOf(shot) == ImgList[(shot % Len(ImgList)) + 1]

\* similarity < 0.90 of the probe
ProbeThreshold == 900

\* the locals of detectPageTurnDirection outside a call of it
NoProbe == [dir |-> "right", i |-> 0, paths |-> <<>>]

PagesChangedSkippingErrors(paths) ==
    \E i \in 2..Len(paths) :
        LET c == CompareImages(ImgOf(paths[i - 1]), ImgOf(paths[i]))
        IN  c.err = Nil /\ SimilarityBelow(c, ProbeThreshold)

PagesChangedLastPair(paths) ==
    SimilarityBelow(CompareImages(ImgOf(paths[Len(paths) - 1]), ImgOf(paths[Len(paths)])),
                    ProbeThreshold)

\* "if any consecutive pair differs": the comparison loops of lines 94-112, 171-189;
\* the error of CompareImages is only printed, its similarity 0 is used
PagesChanged(paths) ==
    \E i \in 2..Len(paths) :
        SimilarityBelow(CompareImages(ImgOf(paths[i - 1]), ImgOf(paths[i])), ProbeThreshold)

EUndetectable == Err("could not detect page turn direction", 0)

\* how capturePages takes the return of detectPageTurnDirection (lines 321-335)
DetectReturn(dir, images, err) ==
    /\ IF err = Nil /\ dir # ""
         THEN direction' = dir /\ screenshots' = screenshots \o images
         ELSE direction' = "right" /\ screenshots' = screenshots
    /\ probeOutcome' = IF err = Nil THEN dir
                       ELSE IF err = EUndetectable THEN "undetectable" ELSE "failed"
    /\ probe' = NoProbe
    /\ pc' = "activate"
    /\ rpc' = "idle"
    /\ UNCHANGED <<cancelled, cancelAt, cfg, attempt, delay, lastErr, rerr, calls, slept, caller, fnPlan>>
    /\ UNCHANGED <<opt, book, pos, pageNum, lastShot, loopCaptures, loopTurns, endCheck,
                   capRet, tempDir, pdfInput, result>>

\* the cover capture has returned (lines 36-53)
DetectAfterCover ==
    /\ rpc = "ret" /\ caller = "detect_cover"
    /\ IF rerr # Nil
         THEN DetectReturn("", <<>>, Wrap("failed to capture cover", 0, rerr))
         ELSE /\ probe' = [dir |-> "right", i |-> 1, paths |-> <<lastShot>>]
              /\ RetryEnter("detect_turn", DefaultRetryConfig)
              /\ UNCHANGED <<cancelled, cancelAt, fnPlan>>
              /\ UNCHANGED <<opt, book, pos, pc, probeOutcome, direction, screenshots, pageNum, lastShot,
                             loopCaptures, loopTurns, endCheck, capRet, tempDir, pdfInput, result>>
    /\ IF rerr # Nil
         THEN UNCHANGED <<probeHist, debugDir>>
         ELSE /\ probeHist' = [right |-> 0, left |-> 0, caps |-> 0, fwd |-> <<lastShot>>]
              /\ debugDir' = debugDir \cup {DebugFile("detect_cover", 0)}
    /\ UNCHANGED <<cancelSeen, callAfterCancel, turnedSince, lastShotFresh>>
    /\ UNCHANGED pvars
    /\ UNCHANGED tvars

\* the key press of the probe has returned (lines 59-67, 136-144)
DetectAfterTurn ==
    /\ rpc = "ret" /\ caller = "detect_turn"
    /\ IF rerr # Nil
         THEN DetectReturn("", <<>>, Wrap("failed to press arrow", 0, rerr))
         ELSE /\ RetryEnter("detect_cap", DefaultRetryConfig)
              /\ probe' = probe
              /\ UNCHANGED <<cancelled, cancelAt, fnPlan>>
              /\ UNCHANGED <<opt, book, pos, pc, probeOutcome, direction, screenshots, pageNum, lastShot,
                             loopCaptures, loopTurns, endCheck, capRet, tempDir, pdfInput, result>>
    /\ probeHist' = IF rerr # Nil THEN probeHist
                    ELSE [probeHist EXCEPT ![probe.dir] = @ + 1]
    /\ UNCHANGED debugDir
    /\ UNCHANGED <<cancelSeen, callAfterCancel, turnedSince, lastShotFresh>>
    /\ UNCHANGED pvars
    /\ UNCHANGED tvars

\* the capture after a key press has returned (lines 75-87, 152-164), and after
\* the last press the comparison and the decision (lines 89-130, 166-201)
DetectAfterCapture ==
    /\ rpc = "ret" /\ caller = "detect_cap"
    /\ IF rerr # Nil
         THEN DetectReturn("", <<>>, Wrap("failed to capture", probe.i, rerr))
         ELSE LET paths == Append(probe.paths, lastShot)
              IN  IF probe.i < ProbePresses
                    THEN /\ probe' = [probe EXCEPT !.i = probe.i + 1, !.paths = paths]
                         /\ RetryEnter("detect_turn", DefaultRetryConfig)
                         /\ UNCHANGED <<cancelled, cancelAt, fnPlan>>
                         /\ UNCHANGED <<opt, book, pos, pc, probeOutcome, direction, screenshots, pageNum,
                                        lastShot, loopCaptures, loopTurns, endCheck, capRet, tempDir,
                                        pdfInput, result>>
                    ELSE IF PagesChanged(paths)
                      THEN DetectReturn(probe.dir, paths, Nil)
                      ELSE IF probe.dir = "right"
                        THEN /\ probe' = [dir |-> "left", i |-> 1, paths |-> <<paths[Len(paths)]>>]
                             /\ RetryEnter("detect_turn", DefaultRetryConfig)
                             /\ UNCHANGED <<cancelled, cancelAt, fnPlan>>
                             /\ UNCHANGED <<opt, book, pos, pc, probeOutcome, direction, screenshots,
                                            pageNum, lastShot, loopCaptures, loopTurns, endCheck, capRet,
                                            tempDir, pdfInput, result>>
                        ELSE DetectReturn("", <<>>, EUndetectable)
    /\ IF rerr # Nil
         THEN UNCHANGED <<probeHist, debugDir>>
         ELSE /\ probeHist' = [probeHist EXCEPT !.caps = @ + 1,
                                                !.fwd = IF probe.dir = "right"
                                                          THEN Append(@, lastShot) ELSE @]
              /\ debugDir' = debugDir \cup {DebugFile(IF probe.dir = "right" THEN "detect_right"
                                                       ELSE "detect_left", probe.i)}
    /\ UNCHANGED <<cancelSeen, callAfterCancel, turnedSince, lastShotFresh>>
    /\ UNCHANGED pvars
    /\ UNCHANGED tvars

----------------------------------------------------------------------------
(* capturePages *)

\* "Safety limit"
maxPages == 1000

\* tail window of the end-of-book check
EndWindow == 5

\* similarity < 0.995 of the end-of-book check
EndThreshold == 995

\* number of trailing screenshots removed at the end of the book
EndDrop == 5

\* the loop condition pageNum <= maxPages
PageLoopCondOffByOne(n) == n <= maxPages + 1

PageLoopCond(n) == n <= maxPages

\* the case <-ctx.Done() at the head of the capture loop
LoopCancelled(c) == c

AllIdenticalThreePairs(shots) ==
    \A i \in (Len(shots) - (EndWindow - 1) + 2)..Len(shots) :
        LET c == CompareImages(ImgOf(shots[i - 1]), ImgOf(shots[i]))
        IN  c.err = Nil /\ ~SimilarityBelow(c, EndThreshold)

\* lines 395-415: every adjacent pair of the last 5 screenshots compares
\* without error and with a similarity not below the threshold
AllIdentical(shots) ==
    \A i \in (Len(shots) - (EndWindow - 1) + 1)..Len(shots) :
        LET c == CompareImages(ImgOf(shots[i - 1]), ImgOf(shots[i]))
        IN  c.err = Nil /\ ~SimilarityBelow(c, EndThreshold)

\* "Check for end of book": len(screenshots) >= 5 and allIdentical
EndOfBook(shots) == Len(shots) >= EndWindow /\ AllIdentical(shots)

\* screenshots[:len(screenshots)-5]
DropTailFour(shots) == SubSeq(shots, 1, Len(shots) - (EndDrop - 1))

DropTail(shots) == SubSeq(shots, 1, Len(shots) - EndDrop)

\* the page count capturePages returns when the loop ends by its break (line 458)
BreakPageCount(n, shots) == n

\* if len(allMargins) >= 5 { allMargins = allMargins[:len(allMargins)-5] }, on lengths
DropMargins(n) == IF n >= EndDrop THEN n - EndDrop ELSE n

\* a return of capturePages
CpReturn(n, shots, err) ==
    /\ capRet' = [pageCount |-> n, screenshots |-> shots, err |-> err]
    /\ pc' = "cp_ret"
    /\ rpc' = "idle"

\* entry of capturePages up to the call of detectPageTurnDirection (lines 290-321)
capturePagesBegin ==
    /\ pc = "capture"
    /\ pageNum' = 1
    /\ screenshots' = <<>>
    /\ IF opt.PageTurnKey # "left"
         THEN /\ RetryEnter("detect_cover", DefaultRetryConfig)
              /\ pc' = "detect"
              /\ UNCHANGED <<direction, probeOutcome>>
         ELSE /\ direction' = opt.PageTurnKey
              /\ probeOutcome' = "skipped"
              /\ pc' = "activate"
              /\ UNCHANGED <<cfg, rpc, attempt, delay, lastErr, rerr, calls, slept, caller>>
    /\ UNCHANGED <<cancelled, cancelAt, fnPlan>>
    /\ UNCHANGED <<opt, book, pos, probe, lastShot, loopCaptures, loopTurns, endCheck,
                   capRet, tempDir, pdfInput, result>>
    /\ UNCHANGED hvars
    /\ UNCHANGED pvars
    /\ UNCHANGED tvars

\* "Activate Kindle once before starting page capture" (lines 339-348)
Activate ==
    /\ pc = "activate"
    /\ \E ok \in CallOutcomes :
        IF ok
          THEN pc' = "loop" /\ UNCHANGED <<capRet, rpc>>
          ELSE CpReturn(0, <<>>, Wrap("failed to activate Kindle", 0, ECapture))
    /\ UNCHANGED <<cancelled, cancelAt, cfg, attempt, delay, lastErr, rerr, calls, slept, caller, fnPlan>>
    /\ UNCHANGED <<opt, book, pos, probe, probeOutcome, direction, screenshots, pageNum, lastShot,
                   loopCaptures, loopTurns, endCheck, tempDir, pdfInput, result>>
    /\ callAfterCancel' = (callAfterCancel \/ cancelSeen)
    /\ UNCHANGED <<cancelSeen, turnedSince, lastShotFresh, probeHist, debugDir>>
    /\ UNCHANGED pvars
    /\ UNCHANGED tvars

pageLimitErrorNil(max) == Nil

\* fmt.Errorf("reached maximum page limit (%d)", maxPages) of line 453
pageLimitError(max) == Err("reached maximum page limit", max)

\* head of the capture loop: the loop condition, the cancellation check and the
\* call of the per-page capture (lines 350-366); past the loop, lines 449-454
LoopHead ==
    /\ pc = "loop"
    /\ IF ~PageLoopCond(pageNum)
         THEN /\ CpReturn(pageNum - 1, screenshots, pageLimitError(maxPages))
              /\ UNCHANGED <<cfg, attempt, delay, lastErr, rerr, calls, slept, caller>>
         ELSE IF LoopCancelled(cancelled)
           THEN /\ CpReturn(pageNum - 1, screenshots, CtxErr)
                /\ UNCHANGED <<cfg, attempt, delay, lastErr, rerr, calls, slept, caller>>
           ELSE /\ RetryEnter("loop_cap", DefaultRetryConfig)
                /\ pc' = "inloop"
                /\ UNCHANGED capRet
    /\ UNCHANGED <<cancelled, cancelAt, fnPlan>>
    /\ UNCHANGED <<opt, book, pos, probe, probeOutcome, direction, screenshots, pageNum, lastShot,
                   loopCaptures, loopTurns, endCheck, tempDir, pdfInput, result>>
    /\ cancelSeen' = (cancelSeen \/ (PageLoopCond(pageNum) /\ LoopCancelled(cancelled)))
    /\ UNCHANGED <<callAfterCancel, turnedSince, lastShotFresh, probeHist, debugDir>>
    /\ UNCHANGED pvars
    /\ UNCHANGED tvars

\* the per-page capture has returned: lines 367-441 up to the page turn
LoopAfterCapture ==
    /\ rpc = "ret" /\ caller = "loop_cap"
    /\ IF rerr # Nil
         THEN /\ CpReturn(pageNum - 1, screenshots, Wrap("failed to capture page", pageNum, rerr))
              /\ UNCHANGED <<cfg, attempt, delay, lastErr, rerr, calls, slept, caller>>
              /\ UNCHANGED <<screenshots, loopCaptures, endCheck>>
         ELSE LET shots == Append(screenshots, lastShot)
              IN  /\ loopCaptures' = loopCaptures + 1
                  /\ endCheck' = [n |-> Len(shots),
                                  window |-> [i \in 1..Min(Len(shots), EndWindow) |->
                                                 ImgOf(shots[Len(shots) - Min(Len(shots), EndWindow) + i])],
                                  declared |-> EndOfBook(shots)]
                  /\ IF EndOfBook(shots)
                       THEN /\ screenshots' = DropTail(shots)
                            /\ CpReturn(BreakPageCount(pageNum, DropTail(shots)), DropTail(shots), Nil)
                            /\ UNCHANGED <<cfg, attempt, delay, lastErr, rerr, calls, slept, caller>>
                       ELSE /\ screenshots' = shots
                            /\ RetryEnter("loop_turn", DefaultRetryConfig)
                            /\ UNCHANGED <<pc, capRet>>
    /\ UNCHANGED <<cancelled, cancelAt, fnPlan>>
    /\ UNCHANGED <<opt, book, pos, probe, probeOutcome, direction, pageNum, lastShot, loopTurns,
                   tempDir, pdfInput, result>>
    /\ UNCHANGED hvars
    /\ UNCHANGED pvars
    /\ allMarginsLen' = IF rerr # Nil THEN allMarginsLen
                        ELSE IF EndOfBook(Append(screenshots, lastShot))
                          THEN DropMargins(allMarginsLen + 1)
                          ELSE allMarginsLen + 1
    /\ UNCHANGED <<trimmedScreenshots, loopDirs>>

\* the page turn has returned (lines 438-441)
LoopAfterTurn ==
    /\ rpc = "ret" /\ caller = "loop_turn"
    /\ IF rerr # Nil
         THEN /\ CpReturn(pageNum, screenshots, Wrap("failed to turn page after retries", 0, rerr))
              /\ UNCHANGED loopTurns
         ELSE /\ loopTurns' = loopTurns + 1
              /\ pc' = "delay"
              /\ rpc' = "idle"
              /\ UNCHANGED capRet
    /\ UNCHANGED <<cancelled, cancelAt, cfg, attempt, delay, lastErr, rerr, calls, slept, caller, fnPlan>>
    /\ UNCHANGED <<opt, book, pos, probe, probeOutcome, direction, screenshots, pageNum, lastShot,
                   loopCaptures, endCheck, tempDir, pdfInput, result>>
    /\ UNCHANGED hvars
    /\ UNCHANGED pvars
    /\ UNCHANGED tvars

\* time.Sleep(options.PageDelay); pageNum++ (lines 443-446)
LoopDelay ==
    /\ pc = "delay"
    /\ pageNum' = pageNum + 1
    /\ pc' = "loop"
    /\ UNCHANGED rvars
    /\ UNCHANGED <<opt, book, pos, probe, probeOutcome, direction, screenshots, lastShot,
                   loopCaptures, loopTurns, endCheck, capRet, tempDir, pdfInput, result>>
    /\ UNCHANGED hvars
    /\ UNCHANGED pvars
    /\ UNCHANGED tvars

----------------------------------------------------------------------------
(* The collaborators called through RetryWithBackoff *)

CaptureCallers == {"detect_cover", "detect_cap", "loop_cap"}

TurnCallers == {"detect_turn", "loop_turn"}

\* the file the capture of this caller writes
ShotOf(c) ==
    CASE c = "detect_cover" -> Shot("detect_cover", 0, Screen(pos))
      [] c = "detect_cap" -> Shot(IF probe.dir = "right" THEN "detect_right" ELSE "detect_left",
                                  probe.i, Screen(pos))
      [] OTHER -> Shot("page", pageNum, Screen(pos))

\* fn of a capture: CaptureFrontmostWindow / CaptureWithoutActivation
FnCapture ==
    /\ rpc = "call" /\ caller \in CaptureCallers
    /\ \E ok \in CallOutcomes :
        IF ok THEN /\ lastShot' = ShotOf(caller)
                   /\ lastShotFresh' = turnedSince
                   /\ turnedSince' = FALSE
                   /\ RetryAfterCall(Nil)
              ELSE /\ UNCHANGED <<lastShot, lastShotFresh, turnedSince>>
                   /\ RetryAfterCall(ECapture)
    /\ callAfterCancel' = (callAfterCancel \/ cancelSeen)
    /\ UNCHANGED <<opt, book, pos, pc, probe, probeOutcome, direction, screenshots, pageNum,
                   loopCaptures, loopTurns, endCheck, capRet, tempDir, pdfInput, result>>
    /\ UNCHANGED <<cancelSeen, probeHist, debugDir>>
    /\ UNCHANGED pvars
    /\ UNCHANGED tvars

TurnArgFlipping(c) ==
    IF c = "detect_turn" THEN probe.dir
    ELSE IF loopTurns % 2 = 1 THEN "left" ELSE direction

\* the argument of TurnNextPage: the key under test in the probe, direction in
\* the loop
TurnArg(c) == IF c = "detect_turn" THEN probe.dir ELSE direction

\* fn of a page turn: TurnNextPage(direction)
FnTurn ==
    /\ rpc = "call" /\ caller \in TurnCallers
    /\ \E e \in TurnOutcomes :
        IF e = Nil
          THEN /\ pos' = Move(pos, KeyOf(TurnArg(caller)))
               /\ turnedSince' = TRUE
               /\ RetryAfterCall(Nil)
          ELSE /\ UNCHANGED <<pos, turnedSince>>
               /\ RetryAfterCall(e)
    /\ callAfterCancel' = (callAfterCancel \/ cancelSeen)
    /\ UNCHANGED <<opt, book, pc, probe, probeOutcome, direction, screenshots, pageNum, lastShot,
                   loopCaptures, loopTurns, endCheck, capRet, tempDir, pdfInput, result>>
    /\ UNCHANGED <<cancelSeen, lastShotFresh, probeHist, debugDir>>
    /\ UNCHANGED pvars
    /\ loopDirs' = IF caller = "loop_turn" THEN loopDirs \cup {TurnArg(caller)} ELSE loopDirs
    /\ UNCHANGED <<allMarginsLen, trimmedScreenshots>>

\* fn of SpecRetry: the scripted outcome of this call
FnScripted ==
    /\ rpc = "call" /\ caller = "standalone"
    /\ RetryAfterCall(FnResult(calls + 1))
    /\ UNCHANGED svars
    /\ UNCHANGED hvars
    /\ UNCHANGED pvars
    /\ UNCHANGED tvars

\* a step of RetryWithBackoff; its cancellation check is one of the session's
RetryCheck ==
    /\ RetryCheckStep
    /\ cancelSeen' = (cancelSeen \/ rerr' = CtxErr)
    /\ UNCHANGED svars
    /\ UNCHANGED <<callAfterCancel, turnedSince, lastShotFresh, probeHist, debugDir>>
    /\ UNCHANGED pvars
    /\ UNCHANGED tvars

RetrySleep ==
    /\ RetrySleepStep
    /\ UNCHANGED svars
    /\ UNCHANGED hvars
    /\ UNCHANGED pvars
    /\ UNCHANGED tvars

----------------------------------------------------------------------------
(* ConvertCurrentBook *)

PreflightFailures ==
    {Err("Kindle app is not installed", 0), Err("no book is currently open", 0),
     Err("Kindle app is not in foreground", 0), Err("insufficient disk space", 0)}

\* no return yet; Warnings is the []string{} of line 65, which no line appends to
NoResult == [returned |-> FALSE, ok |-> FALSE, PageCount |-> 0, Warnings |-> <<>>, err |-> Nil]

PreflightReturnWithResult(e) == [returned |-> TRUE, ok |-> TRUE, PageCount |-> 0, Warnings |-> <<>>, err |-> e]

\* return nil, err of a failed check of steps 4 and 5
PreflightReturn(e) == [returned |-> TRUE, ok |-> FALSE, PageCount |-> 0, Warnings |-> <<>>, err |-> e]

CleanupTempDirSkipped(d) == d

\* defer o.fileManager.CleanupTempDir(tempDir): os.RemoveAll(dir)
CleanupTempDir(d) == "removed"

\* steps 4-7: validateKindleState, CheckDiskSpace, the output path, CreateTempDir
Preflight ==
    /\ pc = "start"
    /\ \/ /\ tempDir' = "created"
          /\ pc' = "capture"
          /\ result' = result
       \/ \E e \in PreflightFailures :
            /\ result' = PreflightReturn(e)
            /\ pc' = "done"
            /\ tempDir' = tempDir
    /\ UNCHANGED rvars
    /\ UNCHANGED <<opt, book, pos, probe, probeOutcome, direction, screenshots, pageNum, lastShot,
                   loopCaptures, loopTurns, endCheck, capRet, pdfInput>>
    /\ UNCHANGED hvars
    /\ UNCHANGED pvars
    /\ UNCHANGED tvars

\* hasCustomTrim of lines 182-183
hasCustomTrim(o) == o.Mode = "generate" /\ o.Trim

detectModeMisspelt(o) == o.Mode = "detection"

\* if options.Mode == "detect" of line 148
detectMode(o) == o.Mode = "detect"

CaptureFailedNotWrapping(err) == Err("failed to capture pages", 0)

\* fmt.Errorf("failed to capture pages: %w", err) of line 138
CaptureFailed(err) == Wrap("failed to capture pages", 0, err)

\* capturePages has returned: lines 136-178
ConvertAfterCapture ==
    /\ pc = "cp_ret"
    /\ IF capRet.err # Nil
         THEN /\ result' = [returned |-> TRUE, ok |-> FALSE, PageCount |-> 0,
                            Warnings |-> <<>>, err |-> CaptureFailed(capRet.err)]
              /\ tempDir' = CleanupTempDir(tempDir)
              /\ pc' = "done"
         ELSE IF detectMode(opt)
           THEN /\ result' = [returned |-> TRUE, ok |-> TRUE, PageCount |-> capRet.pageCount,
                                   Warnings |-> result.Warnings, err |-> Nil]
                /\ tempDir' = CleanupTempDir(tempDir)
                /\ pc' = "done"
           ELSE /\ result' = [result EXCEPT !.PageCount = capRet.pageCount]
                /\ tempDir' = tempDir
                /\ pc' = IF hasCustomTrim(opt) THEN "trim" ELSE "pdf"
    /\ UNCHANGED rvars
    /\ UNCHANGED <<opt, book, pos, probe, probeOutcome, direction, screenshots, pageNum, lastShot,
                   loopCaptures, loopTurns, endCheck, capRet, pdfInput>>
    /\ UNCHANGED hvars
    /\ UNCHANGED pvars
    /\ UNCHANGED tvars

\* TrimImageFileWithCustomMargins fails on a file it cannot decode
TrimFails(shot) == ~Decodes(ImgOf(shot))

TrimPagesDroppingFailed(shots) ==
    LET RECURSIVE From(_)
        From(i) == IF i > Len(shots) THEN <<>>
                   ELSE (IF TrimFails(shots[i]) THEN <<>>
                         ELSE <<Shot("trimmed", i, ImgOf(shots[i]))>>) \o From(i + 1)
    IN  From(1)

\* the loop of step 10: page_%04d_trimmed.png of the i-th screenshot, or the
\* screenshot itself when trimming it failed
TrimPages(shots) ==
    [i \in 1..Len(shots) |->
        IF TrimFails(shots[i]) THEN shots[i] ELSE Shot("trimmed", i, ImgOf(shots[i]))]

\* step 10: custom trimming of all screenshots (lines 180-212)
CustomTrim ==
    /\ pc = "trim"
    /\ trimmedScreenshots' = TrimPages(capRet.screenshots)
    /\ pc' = "pdf"
    /\ UNCHANGED rvars
    /\ UNCHANGED <<opt, book, pos, probe, probeOutcome, direction, screenshots, pageNum, lastShot,
                   loopCaptures, loopTurns, endCheck, capRet, tempDir, pdfInput, result>>
    /\ UNCHANGED hvars
    /\ UNCHANGED pvars
    /\ UNCHANGED <<allMarginsLen, loopDirs>>

\* step 11: CreatePDF on the screenshots, and the return (lines 214-245)
GeneratePDF ==
    /\ pc = "pdf"
    /\ pdfInput' = <<IF hasCustomTrim(opt) THEN trimmedScreenshots ELSE capRet.screenshots>>
    /\ \E ok \in BOOLEAN :
        result' = IF ok THEN [result EXCEPT !.returned = TRUE, !.ok = TRUE]
                  ELSE [returned |-> TRUE, ok |-> FALSE, PageCount |-> 0, Warnings |-> <<>>,
                        err |-> Wrap("failed to generate PDF", 0, Err("pdf", 0))]
    /\ tempDir' = CleanupTempDir(tempDir)
    /\ pc' = "done"
    /\ UNCHANGED rvars
    /\ UNCHANGED <<opt, book, pos, probe, probeOutcome, direction, screenshots, pageNum, lastShot,
                   loopCaptures, loopTurns, endCheck, capRet>>
    /\ UNCHANGED hvars
    /\ UNCHANGED pvars
    /\ UNCHANGED tvars

----------------------------------------------------------------------------
(* The cancellation signal *)

\* where the control is when the signal fires
CancelPoint ==
    IF pc = "standalone" THEN RetryPoint
    ELSE IF pc = "delay" THEN "delay" ELSE "session"

Cancel ==
    /\ ~cancelled
    /\ pc # "done"
    /\ ~(pc = "standalone" /\ rpc = "ret")
    /\ cancelled' = TRUE
    /\ cancelAt' = [point |-> CancelPoint, calls |-> calls]
    /\ UNCHANGED <<cfg, rpc, attempt, delay, lastErr, rerr, calls, slept, caller, fnPlan>>
    /\ UNCHANGED svars
    /\ UNCHANGED hvars
    /\ UNCHANGED pvars
    /\ UNCHANGED tvars

----------------------------------------------------------------------------
(* Specifications *)

NotCancelled == [point |-> "none", calls |-> 0]

\* Trim says whether one of TrimTop, TrimBottom, TrimLeft, TrimRight is not 0
Options == [PageTurnKey : {"left", "right"}, Mode : {"generate", "detect"}, Trim : {FALSE}]

TrimOptions == [PageTurnKey : {"left", "right"}, Mode : {"generate"}, Trim : {TRUE}]

\* the sessions of the model: every option with every short book, the flaky and
\* the long readers in generate mode
Sessions ==
    {[opt |-> o, book |-> b] : o \in Options, b \in ShortBooks}
    \cup {[opt |-> o, book |-> b] : o \in {x \in Options : x.Mode = "generate"},
                                   b \in FlakyBooks \cup LongBooks}
    \cup {[opt |-> o, book |-> b] : o \in TrimOptions, b \in TrimBooks}

NoShot == Shot("none", 0, ImgEnd)

NoProbeHist == [right |-> 0, left |-> 0, caps |-> 0, fwd |-> <<>>]

NoOutput == [matchCount |-> 0, totalCount |-> 0, err |-> Nil]

\* a session: ConvertCurrentBook(ctx, options) is called
Init ==
    /\ cancelled = FALSE
    /\ cancelAt = NotCancelled
    /\ cfg = DefaultRetryConfig
    /\ rpc = "idle"
    /\ attempt = 1
    /\ delay = DefaultRetryConfig.InitialDelay
    /\ lastErr = Nil
    /\ rerr = Nil
    /\ calls = 0
    /\ slept = <<>>
    /\ caller = "none"
    /\ fnPlan = <<Nil>>
    /\ \E s \in Sessions : opt = s.opt /\ book = s.book
    /\ pos = 0
    /\ pc = "start"
    /\ probe = NoProbe
    /\ probeOutcome = "none"
    /\ direction = opt.PageTurnKey
    /\ screenshots = <<>>
    /\ pageNum = 1
    /\ lastShot = NoShot
    /\ loopCaptures = 0
    /\ loopTurns = 0
    /\ endCheck = [n |-> 0, window |-> <<>>, declared |-> FALSE]
    /\ capRet = [pageCount |-> 0, screenshots |-> <<>>, err |-> Nil]
    /\ tempDir = "none"
    /\ pdfInput = <<>>
    /\ result = NoResult
    /\ cancelSeen = FALSE
    /\ callAfterCancel = FALSE
    /\ turnedSince = FALSE
    /\ lastShotFresh = FALSE
    /\ probeHist = NoProbeHist
    /\ debugDir = {}
    /\ allMarginsLen = 0
    /\ trimmedScreenshots = <<>>
    /\ loopDirs = {}
    /\ pureIn = <<>>
    /\ pureOut = NoOutput

Next ==
    \/ Preflight
    \/ capturePagesBegin
    \/ DetectAfterCover
    \/ DetectAfterTurn
    \/ DetectAfterCapture
    \/ Activate
    \/ LoopHead
    \/ LoopAfterCapture
    \/ LoopAfterTurn
    \/ LoopDelay
    \/ ConvertAfterCapture
    \/ CustomTrim
    \/ GeneratePDF
    \/ RetryCheck
    \/ RetrySleep
    \/ FnCapture
    \/ FnTurn
    \/ Cancel

Spec == Init /\ [][Next]_vars

\* RetryWithBackoff(ctx, config, fn) is called, the signal fired or not
InitRetry ==
    /\ cancelled \in BOOLEAN
    /\ cfg \in RetryConfigs
    /\ cancelAt = IF cancelled
                    THEN [point |-> "entry", calls |-> 0]
                    ELSE NotCancelled
    /\ rpc = "check"
    /\ attempt = 1
    /\ delay = cfg.InitialDelay
    /\ lastErr = Nil
    /\ rerr = Nil
    /\ calls = 0
    /\ slept = <<>>
    /\ caller = "standalone"
    /\ fnPlan \in [1..MaxAttemptsBound -> FnOutcomes]
    /\ opt = [PageTurnKey |-> "left", Mode |-> "generate", Trim |-> FALSE]
    /\ book = Reader(<<>>, "end", "right", FALSE)
    /\ pos = 0
    /\ pc = "standalone"
    /\ probe = NoProbe
    /\ probeOutcome = "none"
    /\ direction = "left"
    /\ screenshots = <<>>
    /\ pageNum = 1
    /\ lastShot = NoShot
    /\ loopCaptures = 0
    /\ loopTurns = 0
    /\ endCheck = [n |-> 0, window |-> <<>>, declared |-> FALSE]
    /\ capRet = [pageCount |-> 0, screenshots |-> <<>>, err |-> Nil]
    /\ tempDir = "none"
    /\ pdfInput = <<>>
    /\ result = NoResult
    /\ cancelSeen = FALSE
    /\ callAfterCancel = FALSE
    /\ turnedSince = FALSE
    /\ lastShotFresh = FALSE
    /\ probeHist = NoProbeHist
    /\ debugDir = {}
    /\ allMarginsLen = 0
    /\ trimmedScreenshots = <<>>
    /\ loopDirs = {}
    /\ pureIn = <<>>
    /\ pureOut = NoOutput

NextRetry ==
    \/ RetryCheck
    \/ RetrySleep
    \/ FnScripted
    \/ Cancel

SpecRetry == InitRetry /\ [][NextRetry]_vars

\* CompareImages(img1Path, img2Path) is called on two files
InitCompare ==
    /\ cancelled = FALSE
    /\ cancelAt = NotCancelled
    /\ cfg = DefaultRetryConfig
    /\ rpc = "idle"
    /\ attempt = 1
    /\ delay = DefaultRetryConfig.InitialDelay
    /\ lastErr = Nil
    /\ rerr = Nil
    /\ calls = 0
    /\ slept = <<>>
    /\ caller = "none"
    /\ fnPlan = <<Nil>>
    /\ opt = [PageTurnKey |-> "left", Mode |-> "generate", Trim |-> FALSE]
    /\ book = Reader(<<>>, "end", "right", FALSE)
    /\ pos = 0
    /\ pc = "compare"
    /\ probe = NoProbe
    /\ probeOutcome = "none"
    /\ direction = "left"
    /\ screenshots = <<>>
    /\ pageNum = 1
    /\ lastShot = NoShot
    /\ loopCaptures = 0
    /\ loopTurns = 0
    /\ endCheck = [n |-> 0, window |-> <<>>, declared |-> FALSE]
    /\ capRet = [pageCount |-> 0, screenshots |-> <<>>, err |-> Nil]
    /\ tempDir = "none"
    /\ pdfInput = <<>>
    /\ result = NoResult
    /\ cancelSeen = FALSE
    /\ callAfterCancel = FALSE
    /\ turnedSince = FALSE
    /\ lastShotFresh = FALSE
    /\ probeHist = NoProbeHist
    /\ debugDir = {}
    /\ allMarginsLen = 0
    /\ trimmedScreenshots = <<>>
    /\ loopDirs = {}
    /\ pureIn \in AllImgs \X AllImgs
    /\ pureOut = NoOutput

\* the call returns
Compare ==
    /\ pc = "compare"
    /\ pc' = "compared"
    /\ pureOut' = CompareImages(pureIn[1], pureIn[2])
    /\ UNCHANGED rvars
    /\ UNCHANGED <<opt, book, pos, probe, probeOutcome, direction, screenshots, pageNum, lastShot,
                   loopCaptures, loopTurns, endCheck, capRet, tempDir, pdfInput, result>>
    /\ UNCHANGED hvars
    /\ UNCHANGED pureIn
    /\ UNCHANGED tvars

NextCompare == Compare

SpecCompare == InitCompare /\ [][NextCompare]_vars

----------------------------------------------------------------------------
(* imageprocessing: findContentBounds, CalculateTrimMargins,               *)
(* AggregateMinimumMargins, each run alone on bounded inputs               *)

\* 8-bit colours <<r8, g8, b8>> of the test images
Black == <<0, 0, 0>>

White == <<255, 255, 255>>

Gray == <<128, 128, 128>>

Colours == {Black, White, Gray}

\* sizes and border widths of the test images
SmallSide == 5

LargeSide == 13

Sides == {SmallSide, LargeSide}

BorderWidths == {0, 1, 6}

\* an image W x H with Bounds().Min = (0, 0): a frame of colour cb, t rows at the
\* top, b at the bottom, l columns at the left, r at the right, around an
\* interior of colour ci; corners, when not empty, gives the colours of the four
\* corner pixels (top-left, top-right, bottom-left, bottom-right)
Image(w, h, t, b, l, r, cb, ci, corners) ==
    [W |-> w, H |-> h, t |-> t, b |-> b, l |-> l, r |-> r, cb |-> cb, ci |-> ci,
     corners |-> corners]

FramedImages ==
    {Image(w, h, t, b, l, r, cb, ci, <<>>) :
        w \in Sides, h \in Sides, t \in BorderWidths, b \in BorderWidths,
        l \in BorderWidths, r \in BorderWidths, cb \in Colours, ci \in Colours}

CornerImages ==
    {Image(w, h, 0, 0, 0, 0, ci, ci, c) :
        w \in Sides, h \in Sides, ci \in Colours, c \in [1..4 -> Colours]}

TrimImages == FramedImages \cup CornerImages

\* the corners of lines 58-63, in their order
CornerPoints(img) ==
    <<<<0, 0>>, <<img.W - 1, 0>>, <<0, img.H - 1>>, <<img.W - 1, img.H - 1>>>>

\* img.At(x, y), as r>>8, g>>8, b>>8
At(img, x, y) ==
    IF img.corners # <<>> /\ \E k \in 1..4 : CornerPoints(img)[k] = <<x, y>>
      THEN img.corners[CHOOSE k \in 1..4 : CornerPoints(img)[k] = <<x, y>>]
      ELSE IF x < img.l \/ x >= img.W - img.r \/ y < img.t \/ y >= img.H - img.b
             THEN img.cb
             ELSE img.ci

blackThreshold == 60

whiteThreshold == 195

isPixelBlack(p) == p[1] <= blackThreshold /\ p[2] <= blackThreshold /\ p[3] <= blackThreshold

isPixelWhite(p) == p[1] >= whiteThreshold /\ p[2] >= whiteThreshold /\ p[3] >= whiteThreshold

\* the loop over the corners: a corner counts as black, else as white, else not
blackCornerCount(img) ==
    Cardinality({k \in 1..4 : isPixelBlack(At(img, CornerPoints(img)[k][1], CornerPoints(img)[k][2]))})

whiteCornerCount(img) ==
    Cardinality({k \in 1..4 :
        LET p == At(img, CornerPoints(img)[k][1], CornerPoints(img)[k][2])
        IN  ~isPixelBlack(p) /\ isPixelWhite(p)})

\* var mode TargetMode of lines 87-102
TargetMode(img) ==
    IF blackCornerCount(img) > whiteCornerCount(img) THEN "black"
    ELSE IF whiteCornerCount(img) > blackCornerCount(img) THEN "white"
    ELSE IF blackCornerCount(img) > 0 THEN "black"
    ELSE IF whiteCornerCount(img) > 0 THEN "white"
    ELSE "none"

\* noiseTolerance = 0.95, in percent: float64(matchCount)/total >= 0.95 is
\* matchCount * 100 >= 95 * total for the totals of the model
noiseTolerance == 95

lookaheadGap == 5

pixelMatches(mode, p) ==
    (mode = "black" /\ isPixelBlack(p)) \/ (mode = "white" /\ isPixelWhite(p))

isRowRemovable(img, mode, y) ==
    Cardinality({x \in 0..(img.W - 1) : pixelMatches(mode, At(img, x, y))}) * 100
        >= noiseTolerance * img.W

isColRemovable(img, mode, x) ==
    Cardinality({y \in 0..(img.H - 1) : pixelMatches(mode, At(img, x, y))}) * 100
        >= noiseTolerance * img.H

\* "Scan MinY (Top)": the loop from y on, minY so far
RECURSIVE ScanMinY(_, _, _, _)
ScanMinY(img, mode, y, minY) ==
    IF y >= img.H THEN minY
    ELSE IF isRowRemovable(img, mode, y) THEN ScanMinY(img, mode, y + 1, y + 1)
    ELSE IF y + lookaheadGap < img.H
            /\ \A k \in 1..lookaheadGap : isRowRemovable(img, mode, y + k)
      THEN ScanMinY(img, mode, y + 1, y + 1)
      ELSE minY

\* "Scan MaxY (Bottom)"
RECURSIVE ScanMaxY(_, _, _, _, _)
ScanMaxY(img, mode, minY, y, maxY) ==
    IF y < minY THEN maxY
    ELSE IF isRowRemovable(img, mode, y) THEN ScanMaxY(img, mode, minY, y - 1, y)
    ELSE IF y - lookaheadGap >= minY
            /\ \A k \in 1..lookaheadGap : isRowRemovable(img, mode, y - k)
      THEN ScanMaxY(img, mode, minY, y - 1, y)
      ELSE maxY

\* "Scan MinX (Left)"
RECURSIVE ScanMinX(_, _, _, _)
ScanMinX(img, mode, x, minX) ==
    IF x >= img.W THEN minX
    ELSE IF isColRemovable(img, mode, x) THEN ScanMinX(img, mode, x + 1, x + 1)
    ELSE IF x + lookaheadGap < img.W
            /\ \A k \in 1..lookaheadGap : isColRemovable(img, mode, x + k)
      THEN ScanMinX(img, mode, x + 1, x + 1)
      ELSE minX

\* "Scan MaxX (Right)"
RECURSIVE ScanMaxX(_, _, _, _, _)
ScanMaxX(img, mode, minX, x, maxX) ==
    IF x < minX THEN maxX
    ELSE IF isColRemovable(img, mode, x) THEN ScanMaxX(img, mode, minX, x - 1, x)
    ELSE IF x - lookaheadGap >= minX
            /\ \A k \in 1..lookaheadGap : isColRemovable(img, mode, x - k)
      THEN ScanMaxX(img, mode, minX, x - 1, x)
      ELSE maxX

\* image.Rect(x0, y0, x1, y1): the coordinates put in order
Rect(x0, y0, x1, y1) ==
    [MinX |-> IF x0 > x1 THEN x1 ELSE x0, MinY |-> IF y0 > y1 THEN y1 ELSE y0,
     MaxX |-> IF x0 > x1 THEN x0 ELSE x1, MaxY |-> IF y0 > y1 THEN y0 ELSE y1]

\* img.Bounds()
Bounds(img) == [MinX |-> 0, MinY |-> 0, MaxX |-> img.W, MaxY |-> img.H]

\* image.Rectangle{}
ZeroRect == [MinX |-> 0, MinY |-> 0, MaxX |-> 0, MaxY |-> 0]

\* Rectangle.Empty()
Empty(rect) == rect.MinX >= rect.MaxX \/ rect.MinY >= rect.MaxY

findContentBoundsWithMode(img, mode) ==
    IF mode = "none" THEN Bounds(img)
    ELSE LET minY == ScanMinY(img, mode, 0, 0)
         IN  IF minY >= img.H THEN ZeroRect
             ELSE LET maxY == ScanMaxY(img, mode, minY, img.H - 1, img.H)
                      minX == ScanMinX(img, mode, 0, 0)
                      maxX == ScanMaxX(img, mode, minX, img.W - 1, img.W)
                  IN  Rect(minX, minY, maxX, maxY)

findContentBounds(img) == findContentBoundsWithMode(img, TargetMode(img))

\* CalculateTrimMargins: the distances of the content bounds from the image's
CalculateTrimMargins(img) ==
    LET bounds == findContentBounds(img)
        originalBounds == Bounds(img)
    IN  [Top |-> bounds.MinY - originalBounds.MinY,
         Bottom |-> originalBounds.MaxY - bounds.MaxY,
         Left |-> bounds.MinX - originalBounds.MinX,
         Right |-> originalBounds.MaxX - bounds.MaxX]

\* TrimMargins{}
ZeroMargins == [Top |-> 0, Bottom |-> 0, Left |-> 0, Right |-> 0]

\* the loop of AggregateMinimumMargins from index i on (0-based), minMargins so far
RECURSIVE AggregateFrom(_, _, _)
AggregateFrom(margins, i, minMargins) ==
    IF i >= Len(margins) THEN minMargins
    ELSE LET m == margins[i + 1]
         IN  AggregateFrom(margins, i + 1,
                 [Top |-> IF m.Top < minMargins.Top THEN m.Top ELSE minMargins.Top,
                  Bottom |-> IF m.Bottom < minMargins.Bottom THEN m.Bottom ELSE minMargins.Bottom,
                  Left |-> IF m.Left < minMargins.Left THEN m.Left ELSE minMargins.Left,
                  Right |-> IF m.Right < minMargins.Right THEN m.Right ELSE minMargins.Right])

AggregateFromZero(margins) ==
    IF Len(margins) = 0 THEN ZeroMargins ELSE AggregateFrom(margins, 0, ZeroMargins)

AggregateMinimumMargins(margins) ==
    IF Len(margins) = 0 THEN ZeroMargins ELSE AggregateFrom(margins, 1, margins[1])

\* the margin lists AggregateMinimumMargins is run on
MaxMarginList == 3

MaxMarginTB == 2

MaxMarginLR == 1

MarginLists ==
    SeqsUpTo([Top : 0..MaxMarginTB, Bottom : 0..MaxMarginTB,
              Left : 0..MaxMarginLR, Right : 0..MaxMarginLR], MaxMarginList)

\* no session and no RetryWithBackoff is running
NoSession ==
    /\ cancelled = FALSE
    /\ cancelAt = NotCancelled
    /\ cfg = DefaultRetryConfig
    /\ rpc = "idle"
    /\ attempt = 1
    /\ delay = DefaultRetryConfig.InitialDelay
    /\ lastErr = Nil
    /\ rerr = Nil
    /\ calls = 0
    /\ slept = <<>>
    /\ caller = "none"
    /\ fnPlan = <<Nil>>
    /\ opt = [PageTurnKey |-> "left", Mode |-> "generate", Trim |-> FALSE]
    /\ book = Reader(<<>>, "end", "right", FALSE)
    /\ pos = 0
    /\ probe = NoProbe
    /\ probeOutcome = "none"
    /\ direction = "left"
    /\ screenshots = <<>>
    /\ pageNum = 1
    /\ lastShot = NoShot
    /\ loopCaptures = 0
    /\ loopTurns = 0
    /\ endCheck = [n |-> 0, window |-> <<>>, declared |-> FALSE]
    /\ capRet = [pageCount |-> 0, screenshots |-> <<>>, err |-> Nil]
    /\ tempDir = "none"
    /\ pdfInput = <<>>
    /\ result = NoResult
    /\ cancelSeen = FALSE
    /\ callAfterCancel = FALSE
    /\ turnedSince = FALSE
    /\ lastShotFresh = FALSE
    /\ probeHist = NoProbeHist
    /\ debugDir = {}
    /\ allMarginsLen = 0
    /\ trimmedScreenshots = <<>>
    /\ loopDirs = {}

\* findContentBounds and CalculateTrimMargins are called on an image
InitBounds ==
    /\ NoSession
    /\ pc = "bounds"
    /\ pureIn \in TrimImages
    /\ pureOut = NoOutput

\* the calls return
ContentBounds ==
    /\ pc = "bounds"
    /\ pc' = "bounded"
    /\ pureOut' = [bounds |-> findContentBounds(pureIn), margins |-> CalculateTrimMargins(pureIn)]
    /\ UNCHANGED rvars
    /\ UNCHANGED <<opt, book, pos, probe, probeOutcome, direction, screenshots, pageNum, lastShot,
                   loopCaptures, loopTurns, endCheck, capRet, tempDir, pdfInput, result>>
    /\ UNCHANGED hvars
    /\ UNCHANGED pureIn
    /\ UNCHANGED tvars

NextBounds == ContentBounds

SpecBounds == InitBounds /\ [][NextBounds]_vars

\* AggregateMinimumMargins is called on a list of margins
InitAggregate ==
    /\ NoSession
    /\ pc = "aggregate"
    /\ pureIn \in MarginLists
    /\ pureOut = NoOutput

\* the call returns
Aggregate ==
    /\ pc = "aggregate"
    /\ pc' = "aggregated"
    /\ pureOut' = AggregateMinimumMargins(pureIn)
    /\ UNCHANGED rvars
    /\ UNCHANGED <<opt, book, pos, probe, probeOutcome, direction, screenshots, pageNum, lastShot,
                   loopCaptures, loopTurns, endCheck, capRet, tempDir, pdfInput, result>>
    /\ UNCHANGED hvars
    /\ UNCHANGED pureIn
    /\ UNCHANGED tvars

NextAggregate == Aggregate

SpecAggregate == InitAggregate /\ [][NextAggregate]_vars

----------------------------------------------------------------------------
(* automation: AppleScriptAutomation.TurnNextPage *)

\* the error of runAppleScript
EAppleScript == Err("AppleScript error", 0)

\* what IsKindleInForeground can return: (true, nil), (false, nil) or
\* (false, "failed to check if Kindle is in foreground: %w")
ForegroundOutcomes ==
    {[inForeground |-> TRUE, err |-> Nil],
     [inForeground |-> FALSE, err |-> Nil],
     [inForeground |-> FALSE,
      err |-> Wrap("failed to check if Kindle is in foreground", 0, EAppleScript)]}

\* what runAppleScript of the key-code script can return
ScriptOutcomes == {Nil, EAppleScript}

Directions == {"left", "right"}

\* "Right arrow = 124, Left arrow = 123"
keyCode(d) == IF d = "left" THEN 123 ELSE 124

TurnNextPageUnchecked(d, fg, script) ==
    IF fg.err # Nil
      THEN [keys |-> <<>>, err |-> Wrap("failed to check Kindle foreground status", 0, fg.err)]
      ELSE [keys |-> <<keyCode(d)>>,
            err |-> IF script = Nil THEN Nil ELSE ETurn \o script]

\* TurnNextPage(direction) when IsKindleInForeground returns fg and the key-code
\* script, if it is run, returns script: the key codes handed to System Events
\* and the error returned
TurnNextPage(d, fg, script) ==
    IF fg.err # Nil
      THEN [keys |-> <<>>, err |-> Wrap("failed to check Kindle foreground status", 0, fg.err)]
    ELSE IF ~fg.inForeground
      THEN [keys |-> <<>>, err |-> ENotForeground]
      ELSE [keys |-> <<keyCode(d)>>,
            err |-> IF script = Nil THEN Nil ELSE ETurn \o script]

\* number of calls of TurnNextPage in a run of SpecTurn
MaxTurnCalls == 3

\* an AppleScriptAutomation that was not called yet; pureOut is the log of its calls
InitTurn ==
    /\ NoSession
    /\ pc = "automation"
    /\ pureIn = <<>>
    /\ pureOut = <<>>

\* one call of TurnNextPage, from the foreground check to the return
TurnNextPageCall ==
    /\ pc = "automation"
    /\ Len(pureOut) < MaxTurnCalls
    /\ \E d \in Directions, fg \in ForegroundOutcomes, script \in ScriptOutcomes :
        LET r == TurnNextPage(d, fg, script)
        IN  /\ pureIn' = [direction |-> d, fg |-> fg,
                          script |-> IF r.keys = <<>> THEN Nil ELSE script]
            /\ pureOut' = Append(pureOut, [direction |-> d, fg |-> fg, keys |-> r.keys, err |-> r.err])
    /\ UNCHANGED rvars
    /\ UNCHANGED svars
    /\ UNCHANGED hvars
    /\ UNCHANGED tvars

NextTurn == TurnNextPageCall

SpecTurn == InitTurn /\ [][NextTurn]_vars

----------------------------------------------------------------------------
(* jules/internal/capturer: Capturer.CaptureLoop on a platform.Platform *)

\* largest page limit given to CaptureLoop in the model (0 means no limit)
MaxPagesArg == 3

\* compareImages: equal bounds and every pixel equal
compareImages(a, b) ==
    /\ Dx(a) = Dx(b) /\ Dy(a) = Dy(b)
    /\ \A x \in 0..(Dx(a) - 1), y \in 0..(Dy(a) - 1) : PixelAt(a, x, y) = PixelAt(b, x, y)

\* ImagesAreIdentical(path1, path2) on the images the two files hold
ImagesAreIdentical(a, b) ==
    IF ~Decodes(a) \/ ~Decodes(b)
      THEN [identical |-> FALSE, err |-> Err("failed to load", 0)]
      ELSE [identical |-> compareImages(a, b), err |-> Nil]

LimitReachedOffByOne(pages, n) == pages > 0 /\ n >= pages

\* pages > 0 && pageNum > pages
LimitReached(pages, n) == pages > 0 /\ n > pages

\* keyDirection of lines 161-164
keyDirection(cur) == IF cur = "rtl" THEN "left" ELSE "right"

\* the readers CaptureLoop is run on
LoopReaders ==
    ShortBooks \cup FlakyBooks \cup TrimBooks
    \cup {Reader(<<>>, t, f, FALSE) : t \in {"dummy", "endless"}, f \in {"right", "left"}}

\* the calls of the model; without a page limit only on readers on which the
\* loop ends: every screen decodes and the book ends in a static screen
LoopArgs ==
    {a \in [pages : 0..MaxPagesArg, direction : {"ltr", "rtl", "auto"}, book : LoopReaders] :
        a.pages = 0 => a.book \in ShortBooks \cup FlakyBooks}

\* the locals of CaptureLoop, the files of outputDir, the calls the platform
\* received in order (MockPlatform.Screenshots and KeyPresses), whether a capture
\* was found identical to the one before it, and the error returned
NoRun == [pageNum |-> 1, currentDirection |-> "", files |-> <<>>, events |-> <<>>,
          identical |-> FALSE, failed |-> FALSE, ret |-> Nil]

\* os.Create / screencapture of filename: the file holds what the reader shows
WriteFile(files, n, img) == [i \in DOMAIN files \cup {n} |-> IF i = n THEN img ELSE files[i]]

\* os.Remove(filename)
RemoveFile(files, n) == [i \in DOMAIN files \ {n} |-> files[i]]

\* CaptureLoop(ctx, outputDir, pages, direction) is called on a Capturer whose
\* platform shows the reader book
InitCaptureLoop ==
    /\ cancelled = FALSE
    /\ cancelAt = NotCancelled
    /\ cfg = DefaultRetryConfig
    /\ rpc = "idle"
    /\ attempt = 1
    /\ delay = DefaultRetryConfig.InitialDelay
    /\ lastErr = Nil
    /\ rerr = Nil
    /\ calls = 0
    /\ slept = <<>>
    /\ caller = "none"
    /\ fnPlan = <<Nil>>
    /\ opt = [PageTurnKey |-> "left", Mode |-> "generate", Trim |-> FALSE]
    /\ \E a \in LoopArgs :
        /\ book = a.book
        /\ pureIn = [pages |-> a.pages, direction |-> a.direction]
    /\ pos = 0
    /\ pc = "cl_start"
    /\ probe = NoProbe
    /\ probeOutcome = "none"
    /\ direction = "left"
    /\ screenshots = <<>>
    /\ pageNum = 1
    /\ lastShot = NoShot
    /\ loopCaptures = 0
    /\ loopTurns = 0
    /\ endCheck = [n |-> 0, window |-> <<>>, declared |-> FALSE]
    /\ capRet = [pageCount |-> 0, screenshots |-> <<>>, err |-> Nil]
    /\ tempDir = "none"
    /\ pdfInput = <<>>
    /\ result = NoResult
    /\ cancelSeen = FALSE
    /\ callAfterCancel = FALSE
    /\ turnedSince = FALSE
    /\ lastShotFresh = FALSE
    /\ probeHist = NoProbeHist
    /\ debugDir = {}
    /\ allMarginsLen = 0
    /\ trimmedScreenshots = <<>>
    /\ loopDirs = {}
    /\ pureOut = NoRun

\* a step of CaptureLoop: the reader's position, the position in the code and
\* the run change, nothing else
LoopStep(p, at, run) ==
    /\ pos' = p
    /\ pc' = at
    /\ pureOut' = run
    /\ UNCHANGED rvars
    /\ UNCHANGED <<opt, book, probe, probeOutcome, direction, screenshots, pageNum, lastShot,
                   loopCaptures, loopTurns, endCheck, capRet, tempDir, pdfInput, result>>
    /\ UNCHANGED hvars
    /\ UNCHANGED pureIn
    /\ UNCHANGED tvars

\* a return of CaptureLoop
LoopReturn(run, err) == LoopStep(pos, "done", [run EXCEPT !.ret = err])

\* a return with the error of a platform call
LoopFails(run, msg) ==
    LoopReturn([run EXCEPT !.failed = TRUE], Wrap(msg, 0, Err("platform", 0)))

\* lines 54-64: CleanDir, pageNum, currentDirection
CaptureLoopBegin ==
    /\ pc = "cl_start"
    /\ \E ok \in CallOutcomes :
        IF ok
          THEN LoopStep(pos, "cl_head",
                        [pureOut EXCEPT !.pageNum = 1,
                                        !.currentDirection = IF pureIn.direction # "auto"
                                                               THEN pureIn.direction ELSE ""])
          ELSE LoopFails(pureOut, "failed to clean temp dir")

\* head of an iteration: the select on ctx.Done() and the page limit (lines 66-78)
CaptureLoopHead ==
    /\ pc = "cl_head"
    /\ IF cancelled
         THEN LoopReturn(pureOut, Nil)
       ELSE IF LimitReached(pureIn.pages, pureOut.pageNum)
         THEN LoopReturn(pureOut, Nil)
         ELSE LoopStep(pos, "cl_shot", pureOut)

\* the screenshot of the page and the end-of-book detection (lines 80-101)
CaptureLoopScreenshot ==
    /\ pc = "cl_shot"
    /\ \E ok \in CallOutcomes :
        IF ~ok
          THEN LoopFails([pureOut EXCEPT !.events = Append(@, "shot")], "failed to take screenshot")
          ELSE LET n == pureOut.pageNum
                   run == [pureOut EXCEPT !.events = Append(@, "shot"),
                                          !.files = WriteFile(@, n, Screen(pos))]
                   cmp == IF n > 1 THEN ImagesAreIdentical(run.files[n], run.files[n - 1])
                          ELSE [identical |-> FALSE, err |-> Nil]
               IN  IF n > 1 /\ cmp.err = Nil /\ cmp.identical
                     THEN LoopReturn([run EXCEPT !.files = RemoveFile(@, n), !.identical = TRUE], Nil)
                   ELSE IF run.currentDirection = "" /\ n = 1
                     THEN LoopStep(pos, "cl_try_right", run)
                     ELSE LoopStep(pos, "cl_key", run)

\* direction detection: PressKey("right") and the wait (lines 107-111)
DetectPressRight ==
    /\ pc = "cl_try_right"
    /\ \E ok \in CallOutcomes :
        IF ~ok
          THEN LoopFails([pureOut EXCEPT !.events = Append(@, "right")], "failed to turn page")
          ELSE LoopStep(Move(pos, "right"), "cl_shot_right",
                        [pureOut EXCEPT !.events = Append(@, "right")])

\* the provisional page 2 after "right" and its comparison with page 1 (lines 113-134)
DetectShotRight ==
    /\ pc = "cl_shot_right"
    /\ \E ok \in CallOutcomes :
        IF ~ok
          THEN LoopFails([pureOut EXCEPT !.events = Append(@, "shot")], "failed to take screenshot")
          ELSE LET n == pureOut.pageNum
                   run == [pureOut EXCEPT !.events = Append(@, "shot"),
                                          !.files = WriteFile(@, n + 1, Screen(pos))]
                   cmp == ImagesAreIdentical(run.files[n], run.files[n + 1])
               IN  IF cmp.err # Nil
                     THEN LoopReturn(run, Wrap("failed to compare images during detection", 0, cmp.err))
                   ELSE IF ~cmp.identical
                     THEN LoopStep(pos, "cl_head", [run EXCEPT !.currentDirection = "ltr", !.pageNum = 2])
                     ELSE LoopStep(pos, "cl_try_left", [run EXCEPT !.files = RemoveFile(@, n + 1)])

\* PressKey("left") and the wait (lines 136-139)
DetectPressLeft ==
    /\ pc = "cl_try_left"
    /\ \E ok \in CallOutcomes :
        IF ~ok
          THEN LoopFails([pureOut EXCEPT !.events = Append(@, "left")], "failed to turn page")
          ELSE LoopStep(Move(pos, "left"), "cl_shot_left",
                        [pureOut EXCEPT !.events = Append(@, "left")])

\* the provisional page 2 after "left" and its comparison with page 1 (lines 141-158)
DetectShotLeft ==
    /\ pc = "cl_shot_left"
    /\ \E ok \in CallOutcomes :
        IF ~ok
          THEN LoopFails([pureOut EXCEPT !.events = Append(@, "shot")], "failed to take screenshot")
          ELSE LET n == pureOut.pageNum
                   run == [pureOut EXCEPT !.events = Append(@, "shot"),
                                          !.files = WriteFile(@, n + 1, Screen(pos))]
                   cmp == ImagesAreIdentical(run.files[n], run.files[n + 1])
               IN  IF cmp.err # Nil
                     THEN LoopReturn(run, Wrap("failed to compare images during detection", 0, cmp.err))
                   ELSE IF ~cmp.identical
                     THEN LoopStep(pos, "cl_head", [run EXCEPT !.currentDirection = "rtl", !.pageNum = 2])
                     ELSE LoopReturn(run, Err("could not detect direction", 0))

\* the page turn, the wait and pageNum++ (lines 161-172)
CaptureLoopPressKey ==
    /\ pc = "cl_key"
    /\ LET key == keyDirection(pureOut.currentDirection)
       IN  \E ok \in CallOutcomes :
            IF ~ok
              THEN LoopFails([pureOut EXCEPT !.events = Append(@, key)], "failed to turn page")
              ELSE LoopStep(Move(pos, key), "cl_head",
                            [pureOut EXCEPT !.events = Append(@, key), !.pageNum = @ + 1])

NextCaptureLoop ==
    \/ CaptureLoopBegin
    \/ CaptureLoopHead
    \/ CaptureLoopScreenshot
    \/ DetectPressRight
    \/ DetectShotRight
    \/ DetectPressLeft
    \/ DetectShotLeft
    \/ CaptureLoopPressKey
    \/ Cancel

SpecCaptureLoop == InitCaptureLoop /\ [][NextCaptureLoop]_vars

----------------------------------------------------------------------------
(* SetupSignalHandler: the listener goroutine, the signals and the parent ctx *)

\* number of signals delivered to the process in a run of the model
MaxSignals == 2

\* the calls of the model: with a cleanup callback or nil; on a parent context
\* that is never cancelled (context.Background(), as in main.go) or on one that
\* its owner can cancel
SignalArgs == [cleanup : BOOLEAN, parent : {"background", "cancellable"}]

\* SetupSignalHandler has returned (lines 13-30): sigChan is empty and
\* registered, the goroutine is started and has not reached its select; the
\* other fields are history: the signals delivered, the runs and returns of the
\* callback, the case the select took, whether cancel() was called, whether ctx
\* was done when the first signal was delivered, and whether ctx was done
\* before the callback had returned
ListenerStarted ==
    [lpc |-> "starting", sigChan |-> 0, ctxDone |-> FALSE, delivered |-> 0,
     cleanups |-> 0, returned |-> 0, took |-> "none", cancelCalled |-> FALSE,
     doneFirst |-> FALSE, doneBeforeReturn |-> FALSE]

InitSignal ==
    /\ NoSession
    /\ pc = "listener"
    /\ pureIn \in SignalArgs
    /\ pureOut = ListenerStarted

\* a step of this specification changes the listener's record only
SignalStep(l) ==
    /\ pureOut' = l
    /\ UNCHANGED rvars
    /\ UNCHANGED svars
    /\ UNCHANGED hvars
    /\ UNCHANGED pureIn
    /\ UNCHANGED tvars

\* ctx is done from now on; history: was that before the callback returned
\* although a signal had been delivered
CtxEnds(l) ==
    [l EXCEPT !.ctxDone = TRUE,
              !.doneBeforeReturn = @ \/ (~l.ctxDone /\ pureIn.cleanup /\ l.delivered >= 1
                                          /\ l.returned = 0)]

\* os/signal delivers SIGINT or SIGTERM: a non-blocking send on sigChan (buffer
\* of 1, line 15); a listener blocked in the select receives it at once
DeliverSignal ==
    /\ pc = "listener"
    /\ pureOut.delivered < MaxSignals
    /\ LET l == [pureOut EXCEPT !.delivered = @ + 1,
                                !.doneFirst = IF pureOut.delivered = 0 THEN pureOut.ctxDone ELSE @]
       IN  IF pureOut.lpc = "parked"
             THEN SignalStep([l EXCEPT !.lpc = "received", !.took = "sig"])
           ELSE IF pureOut.sigChan < 1
             THEN SignalStep([l EXCEPT !.sigChan = 1])
             ELSE SignalStep(l)

\* the owner of the parent context cancels it: ctx is done too; a listener
\* blocked in the select takes case <-ctx.Done() and returns (line 26)
CancelParent ==
    /\ pc = "listener"
    /\ pureIn.parent = "cancellable"
    /\ ~pureOut.ctxDone
    /\ IF pureOut.lpc = "parked"
         THEN SignalStep([CtxEnds(pureOut) EXCEPT !.lpc = "exited", !.took = "done"])
         ELSE SignalStep(CtxEnds(pureOut))

\* the cases of the select that can proceed (lines 19-27)
ReadyCases(l) ==
    (IF l.sigChan > 0 THEN {"sig"} ELSE {}) \cup (IF l.ctxDone THEN {"done"} ELSE {})

\* the goroutine reaches the select: it blocks when no case can proceed, else
\* it takes one of the cases that can, whichever the runtime picks
ListenerSelect ==
    /\ pc = "listener"
    /\ pureOut.lpc = "starting"
    /\ IF ReadyCases(pureOut) = {}
         THEN SignalStep([pureOut EXCEPT !.lpc = "parked"])
         ELSE \E c \in ReadyCases(pureOut) :
                IF c = "sig"
                  THEN SignalStep([pureOut EXCEPT !.lpc = "received", !.took = "sig", !.sigChan = 0])
                  ELSE SignalStep([pureOut EXCEPT !.lpc = "exited", !.took = "done"])

ListenerAfterSignalSkippingCleanup(cleanup) == "cancel"

\* if cleanup != nil { cleanup() } of lines 22-24: what follows the receive
ListenerAfterSignal(cleanup) == IF cleanup THEN "cleanup" ELSE "cancel"

\* case sig := <-sigChan: the message, then the callback is called or skipped
ListenerReceived ==
    /\ pc = "listener"
    /\ pureOut.lpc = "received"
    /\ LET to == ListenerAfterSignal(pureIn.cleanup)
       IN  SignalStep([pureOut EXCEPT !.lpc = to,
                                      !.cleanups = IF to = "cleanup" THEN @ + 1 ELSE @])

\* cleanup() returns
CleanupReturns ==
    /\ pc = "listener"
    /\ pureOut.lpc = "cleanup"
    /\ SignalStep([pureOut EXCEPT !.lpc = "cancel", !.returned = @ + 1])

\* cancel() of line 25, and the goroutine ends
ListenerCancel ==
    /\ pc = "listener"
    /\ pureOut.lpc = "cancel"
    /\ SignalStep([CtxEnds(pureOut) EXCEPT !.lpc = "exited", !.cancelCalled = TRUE])

ListenerStep ==
    \/ ListenerSelect
    \/ ListenerReceived
    \/ CleanupReturns
    \/ ListenerCancel

NextSignal ==
    \/ DeliverSignal
    \/ CancelParent
    \/ ListenerStep

\* the goroutine is scheduled and the callback returns; signals and the
\* cancellation of the parent may or may not come
SpecSignal == InitSignal /\ [][NextSignal]_vars /\ WF_vars(ListenerStep)

\* the same session under the scheduling of a sequential program whose calls
\* return: some step is taken whenever one is possible
FairSpec == Spec /\ WF_vars(Next)

----------------------------------------------------------------------------
(* Claims *)

\* C1: without cancellation and with maxAttempts >= 1, RetryWithBackoff calls fn
\* exactly min(k, maxAttempts) times, k the index of the first successful call:
\* never again after a success, never more than maxAttempts times
C1_AttemptBound ==
    (~cancelled /\ cfg.MaxAttempts >= 1) =>
        /\ calls <= Min(FirstOk, cfg.MaxAttempts)
        /\ rpc = "ret" => calls = Min(FirstOk, cfg.MaxAttempts)

C1_Witness ==
    /\ rpc = "ret" /\ ~cancelled /\ cfg.MaxAttempts >= 2
    /\ FirstOk > cfg.MaxAttempts /\ calls = cfg.MaxAttempts /\ rerr # Nil

\* C2: when the loop ends by end detection, the reported PageCount is the number
\* of pages left in the output sequence after the trailing pages were dropped
C2_PageCountIsOutputLength ==
    (result.returned /\ result.ok /\ endCheck.declared) =>
        result.PageCount = Len(capRet.screenshots)

\* C3: when neither key changes the image, the session ends with that failure:
\* no per-page capture, no page turn of the loop, no PDF
C3_UndetectableIsFatal ==
    probeOutcome = "undetectable" =>
        /\ loopCaptures = 0 /\ loopTurns = 0 /\ pdfInput = <<>>
        /\ pc \notin {"loop", "inloop", "delay", "pdf"}
        /\ result.returned => Wraps(result.err, EUndetectable)

\* C4: a signal that fires before an attempt or during a backoff sleep makes
\* RetryWithBackoff return ctx.Err() without another call of fn; fired before
\* the entry, fn is never called
C4_CancelStopsRetry ==
    /\ cancelAt.point \in {"beforeAttempt", "inSleep"} =>
          /\ calls = cancelAt.calls
          /\ rpc = "ret" => rerr = CtxErr
    /\ cancelAt.point = "entry" =>
          /\ calls = 0
          /\ (rpc = "ret" /\ cfg.MaxAttempts >= 1) => rerr = CtxErr

C4_Witness ==
    rpc = "ret" /\ cancelAt.point = "inSleep" /\ calls >= 1 /\ rerr = CtxErr

\* C5: the step that declares the end of the book removes exactly the last 5
\* entries (the new capture and the 4 before it), keeps the others in order, and
\* after it no capture and no page turn happens
C5_EndDropsLastFive ==
    [][ /\ (endCheck'.declared /\ ~endCheck.declared) =>
              /\ Len(screenshots) >= EndWindow - 1
              /\ screenshots' = SubSeq(screenshots, 1, Len(screenshots) - 4)
              /\ capRet'.screenshots = screenshots'
        /\ endCheck.declared =>
              /\ rpc' = "idle" /\ calls' = calls /\ pos' = pos /\ lastShot' = lastShot
              /\ screenshots' = screenshots /\ capRet'.screenshots = screenshots
              /\ loopCaptures' = loopCaptures /\ loopTurns' = loopTurns
              /\ pc' \in {"cp_ret", "trim", "pdf", "done"} ]_vars

C5_Witness ==
    /\ pc = "done" /\ result.ok /\ endCheck.declared
    /\ Len(screenshots) = 2 /\ endCheck.n = 7 /\ pdfInput = <<screenshots>>

C7_LoopFailureIsFatal ==
    [][ /\ (rpc = "ret" /\ caller \in {"loop_cap", "loop_turn"} /\ rerr # Nil /\ rpc' # "ret") =>
              /\ pc' = "cp_ret" /\ rpc' = "idle"
              /\ Wraps(capRet'.err, rerr)
              /\ rerr # CtxErr => (lastErr \in {ECapture, ETurn, ENotForeground} /\ Wraps(rerr, lastErr))
              /\ screenshots' = screenshots /\ capRet'.screenshots = screenshots
        /\ (pc = "cp_ret" /\ capRet.err # Nil /\ pc' # pc) =>
              /\ pc' = "done" /\ result'.returned /\ ~result'.ok
              /\ Wraps(result'.err, capRet.err)
              /\ pdfInput' = <<>> ]_vars

C7_Witness ==
    /\ pc = "done" /\ result.returned /\ ~result.ok /\ Wraps(result.err, ETurn)
    /\ loopCaptures >= 1 /\ pdfInput = <<>>

PageLimitErr == Err("reached maximum page limit", maxPages)

\* C8: at the page ceiling the session still delivers the pages captured so far
C8_PageLimitDeliversPages ==
    (pc = "done" /\ capRet.err = PageLimitErr) =>
        /\ result.ok
        /\ result.PageCount = Len(capRet.screenshots)

\* C9: the loop makes at most 1000 per-page captures and at most 1000 page
\* turns, and every session ends
C9_LoopBounded ==
    /\ [](loopCaptures <= 1000 /\ loopTurns <= 1000)
    /\ <>(pc = "done")

C9_Witness ==
    pc = "done" /\ loopCaptures = 1000 /\ loopTurns = 1000

\* C10: a signal that fires during the inter-page delay ends the loop as
\* aborted with the cancellation error, without another capture or page turn
C10_CancelInDelayAborts ==
    cancelAt.point = "delay" =>
        /\ rpc = "idle"
        /\ pc \in {"delay", "loop", "cp_ret", "done"}
        /\ pc \in {"cp_ret", "done"} => capRet.err = CtxErr
        /\ result.returned => Wraps(result.err, CtxErr)

\* C11: once a cancellation check of the session has seen the signal, the
\* session issues no further external call: no capture, no page-turn input
C11_NoCallAfterCancelSeen ==
    ~callAfterCancel

\* C12: every capture and page-turn input of the probe and of the loop, the
\* activating capture included, goes through RetryWithBackoff: the session is
\* aborted by a failing collaborator call only after the attempts are exhausted
C12_AbortOnlyAfterRetries ==
    (result.returned /\ ~result.ok
        /\ \E e \in {ECapture, ETurn, ENotForeground} : Wraps(result.err, e)) =>
        \E i \in 1..Len(result.err) : result.err[i].msg = "operation failed after attempts"

\* C13: when the first forward input already changes the image (baseline and
\* first forward capture less than 0.90 similar), the probe returns Forward
\* after exactly one capture beyond the baseline and exactly one forward input,
\* with no reverse input
C13_ForwardAfterOneCapture ==
    (probeOutcome = "right" /\ Len(probeHist.fwd) >= 2
        /\ LET c == CompareImages(ImgOf(probeHist.fwd[1]), ImgOf(probeHist.fwd[2]))
           IN  c.matchCount * 1000 < 900 * c.totalCount) =>
        probeHist.caps = 1 /\ probeHist.right = 1 /\ probeHist.left = 0

\* C14: in a session whose direction was auto-detected, a page the loop adds to
\* a non-empty output sequence was captured after at least one successful
\* page-turn input since the capture before it
C14_PagesSeparatedByTurn ==
    (rpc = "ret" /\ caller = "loop_cap" /\ rerr = Nil
        /\ probeOutcome \in {"right", "left"} /\ screenshots # <<>>) =>
        lastShotFresh

\* C15: the probe goes Idle -> ProbingForward -> {Forward | ProbingReverse} ->
\* {Reverse | Failed}: a reverse input is issued only after all the forward
\* captures were taken and no consecutive pair of them had similarity < 0.90;
\* when some forward pair has similarity < 0.90 the probe returns Forward with
\* the baseline and the forward captures and issues no reverse input
C15_ProbeStateMachine ==
    LET fwd == probeHist.fwd
        complete == Len(fwd) = ProbePresses + 1
        changed == \E i \in 2..Len(fwd) :
                       LET c == CompareImages(ImgOf(fwd[i - 1]), ImgOf(fwd[i]))
                       IN  c.matchCount * 1000 < 900 * c.totalCount
    IN  /\ (probe.dir = "left" \/ probeHist.left >= 1 \/ probeOutcome \in {"left", "undetectable"}) =>
               complete /\ ~changed
        /\ (complete /\ changed) =>
               /\ probeOutcome = "right"
               /\ probeHist.left = 0
               /\ probe.dir # "left"
               /\ pc = "activate" => screenshots = fwd
        /\ probeOutcome = "right" => complete /\ changed
        /\ probeOutcome = "left" => probeHist.left = ProbePresses

C15_Witness ==
    /\ probeOutcome = "left"
    /\ probeHist.right = ProbePresses
    /\ probeHist.left = ProbePresses
    /\ Len(probeHist.fwd) = ProbePresses + 1

\* C16: a page-turn call that failed because the application is not in the
\* foreground is not retried: RetryWithBackoff returns right after that call,
\* with no sleep and no further attempt
C16_NotForegroundNotRetried ==
    (caller \in TurnCallers /\ rpc # "idle" /\ lastErr = ENotForeground) =>
        rpc = "ret"

\* C17: when a pre-flight check fails, ConvertCurrentBook returns that error
\* and no result, the temporary directory was never created, no capture and no
\* page-turn input was issued and CreatePDF was not called
C17_PreflightFailureReturnsEarly ==
    (result.returned /\ result.err \in PreflightFailures) =>
        /\ pc = "done"
        /\ ~result.ok
        /\ tempDir = "none"
        /\ probeOutcome = "none" /\ caller = "none" /\ calls = 0
        /\ loopCaptures = 0 /\ loopTurns = 0
        /\ screenshots = <<>> /\ debugDir = {}
        /\ pdfInput = <<>>

C17_Witness ==
    /\ pc = "done"
    /\ result.returned
    /\ result.err = Err("insufficient disk space", 0)
    /\ tempDir = "none"

\* C18: once the temporary directory was created, every return of
\* ConvertCurrentBook comes after CleanupTempDir was invoked on it
C18_CleanupOnEveryExit ==
    (result.returned /\ result.err \notin PreflightFailures) =>
        tempDir = "removed"

C18_Witness ==
    /\ result.returned
    /\ tempDir = "removed"
    /\ Wraps(result.err, CtxErr)

\* C19: the session writes image files only into its temporary directory, so
\* when ConvertCurrentBook has returned no image file it wrote is left on disk:
\* the temporary directory is gone and no file was written outside it
C19_NoImageFileRemains ==
    result.returned =>
        /\ tempDir \in {"none", "removed"}
        /\ debugDir = {}

\* C20: CompareImages on two decodable images of different dimensions returns
\* similarity 0 together with an error, never similarity 0 with a nil error
C20_SizeMismatchIsError ==
    (pc = "compared" /\ Decodes(pureIn[1]) /\ Decodes(pureIn[2])
        /\ (Dx(pureIn[1]) # Dx(pureIn[2]) \/ Dy(pureIn[1]) # Dy(pureIn[2]))) =>
        /\ pureOut.matchCount = 0
        /\ pureOut.err # Nil

\* C26: with positive delays and a multiplier >= 1, every backoff sleep of
\* RetryWithBackoff lasts at most MaxDelay, also when InitialDelay > MaxDelay
C26_SleepAtMostMaxDelay ==
    \A i \in 1..Len(slept) : slept[i] <= cfg.MaxDelay

\* C27: after MaxAttempts consecutive failures without cancellation,
\* RetryWithBackoff returns an error that names MaxAttempts as the attempt count
\* and wraps the error of the last call of fn
C27_ExhaustedWrapsLastError ==
    (rpc = "ret" /\ ~cancelled /\ cfg.MaxAttempts >= 1 /\ FirstOk > cfg.MaxAttempts) =>
        /\ rerr # Nil
        /\ rerr[1] = [msg |-> "operation failed after attempts", n |-> cfg.MaxAttempts]
        /\ SubSeq(rerr, 2, Len(rerr)) = FnResult(cfg.MaxAttempts)

C27_Witness ==
    /\ rpc = "ret" /\ ~cancelled /\ cfg.MaxAttempts >= 2
    /\ FirstOk > cfg.MaxAttempts
    /\ FnResult(1) # FnResult(cfg.MaxAttempts)
    /\ Wraps(rerr, FnResult(cfg.MaxAttempts))

\* C21: each of the four margins CalculateTrimMargins returns for an image is
\* non-negative and strictly smaller than min(height, width) / 2
C21_MarginsBelowHalf ==
    pc = "bounded" =>
        \A m \in {pureOut.margins.Top, pureOut.margins.Bottom,
                  pureOut.margins.Left, pureOut.margins.Right} :
            m >= 0 /\ 2 * m < Min(pureIn.H, pureIn.W)

\* C22: when the corners have no strict majority (as many black-ish as
\* white-ish corners, or none of either), findContentBounds returns the full
\* bounds of the image
C22_TieMeansNoTrim ==
    (pc = "bounded" /\ blackCornerCount(pureIn) = whiteCornerCount(pureIn)) =>
        pureOut.bounds = Bounds(pureIn)

\* C23: findContentBounds never returns an empty or inverted rectangle: where
\* the scans leave no content row or no content column it returns the bounds of
\* the image
C23_BoundsNeverEmpty ==
    pc = "bounded" =>
        ~Empty(pureOut.bounds)

\* C28: for an image with a uniform border of width b, 1 <= b < min(W, H) / 2,
\* black-ish around a white-ish interior or the reverse, each margin
\* CalculateTrimMargins returns is within 2 pixels of b
C28_UniformBorderMeasured ==
    (pc = "bounded" /\ pureIn.corners = <<>>
        /\ pureIn.t >= 1 /\ 2 * pureIn.t < Min(pureIn.W, pureIn.H)
        /\ pureIn.b = pureIn.t /\ pureIn.l = pureIn.t /\ pureIn.r = pureIn.t
        /\ <<pureIn.cb, pureIn.ci>> \in {<<Black, White>>, <<White, Black>>}) =>
        \A m \in {pureOut.margins.Top, pureOut.margins.Bottom,
                  pureOut.margins.Left, pureOut.margins.Right} :
            m - pureIn.t <= 2 /\ pureIn.t - m <= 2

\* C25: AggregateMinimumMargins returns, for a non-empty list, on each edge the
\* minimum of that edge over the list, and all-zero margins for the empty list
C25_AggregateIsEdgeMinimum ==
    pc = "aggregated" =>
        IF pureIn = <<>>
          THEN pureOut = [Top |-> 0, Bottom |-> 0, Left |-> 0, Right |-> 0]
          ELSE \A e \in {"Top", "Bottom", "Left", "Right"} :
                   /\ \A i \in 1..Len(pureIn) : pureOut[e] <= pureIn[i][e]
                   /\ \E i \in 1..Len(pureIn) : pureOut[e] = pureIn[i][e]

C25_Witness ==
    /\ pc = "aggregated"
    /\ Len(pureIn) = 3
    /\ pureIn[1].Top = 2 /\ pureIn[2].Top = 1 /\ pureIn[3].Top = 2
    /\ pureIn[3].Left = 0 /\ pureIn[1].Left = 1
    /\ pureOut.Top = 1 /\ pureOut.Left = 0

\* C24: when capturePages returns, the list of per-page margins has one entry
\* for each page of the returned output sequence, in order, and none for a
\* page that is not in it: entry i is the margins of the i-th output page
C24_MarginsMatchOutput ==
    pc = "cp_ret" =>
        /\ allMarginsLen = Len(capRet.screenshots)
        /\ \A i \in 1..Len(capRet.screenshots) :
               capRet.screenshots[i] = Shot("page", i, ImgOf(capRet.screenshots[i]))

\* C29: the custom-trim step keeps the length of the page list, and its i-th
\* entry is the trimmed file of the i-th input page or, when trimming that
\* page failed, the input page itself; the session goes on to CreatePDF
C29_TrimFallsBackToOriginal ==
    (hasCustomTrim(opt) /\ (pc = "pdf" \/ (pc = "done" /\ pdfInput # <<>>))) =>
        /\ Len(trimmedScreenshots) = Len(capRet.screenshots)
        /\ \A i \in 1..Len(capRet.screenshots) :
               \/ trimmedScreenshots[i] = capRet.screenshots[i]
               \/ trimmedScreenshots[i] = Shot("trimmed", i, ImgOf(capRet.screenshots[i]))
        /\ pc = "done" => pdfInput = <<trimmedScreenshots>>

C29_Witness ==
    /\ pc = "done" /\ hasCustomTrim(opt) /\ result.ok
    /\ Len(trimmedScreenshots) >= 2
    /\ \E i \in 1..Len(trimmedScreenshots) : trimmedScreenshots[i] = capRet.screenshots[i]
    /\ \E i \in 1..Len(trimmedScreenshots) : trimmedScreenshots[i] # capRet.screenshots[i]

\* C30: the direction is resolved once before the capture loop and not
\* reassigned: from the start of the loop on direction keeps the resolved value
\* and every page-turn input of the loop is given that one value
C30_DirectionFixedInLoop ==
    LET resolved == IF opt.PageTurnKey = "left" THEN "left"
                    ELSE IF probeOutcome \in {"right", "left"} THEN probeOutcome
                    ELSE "right"
    IN  /\ loopDirs \subseteq {resolved}
        /\ (probeOutcome # "none" /\ pc \notin {"start", "capture", "detect", "activate"}) =>
               direction = resolved

C30_Witness ==
    /\ pc = "done"
    /\ opt.PageTurnKey = "right" /\ probeOutcome = "left"
    /\ loopTurns >= 2
    /\ loopDirs = {"left"}

\* C31: when the capture loop stops because its own check or the check of
\* RetryWithBackoff saw the signal, capturePages returns an error that is or
\* wraps ctx.Err(), and ConvertCurrentBook returns no result and an error that
\* wraps ctx.Err()
C31_CancelErrorDistinguishable ==
    [][ /\ (pc = "loop" /\ PageLoopCond(pageNum) /\ LoopCancelled(cancelled) /\ pc' # pc) =>
              pc' = "cp_ret" /\ Wraps(capRet'.err, CtxErr)
        /\ (rpc = "ret" /\ caller \in {"loop_cap", "loop_turn"} /\ rerr = CtxErr /\ rpc' # "ret") =>
              pc' = "cp_ret" /\ Wraps(capRet'.err, CtxErr)
        /\ (pc = "cp_ret" /\ Wraps(capRet.err, CtxErr) /\ pc' # pc) =>
              /\ pc' = "done" /\ result'.returned /\ ~result'.ok
              /\ Wraps(result'.err, CtxErr) ]_vars

C31_Witness ==
    /\ pc = "done" /\ result.returned /\ cancelSeen
    /\ caller = "loop_turn" /\ rerr = CtxErr
    /\ Wraps(capRet.err, CtxErr) /\ capRet.err # CtxErr
    /\ Wraps(result.err, CtxErr)

\* C32: for two decodable images of the same dimensions CompareImages returns
\* no error and a similarity in [0, 1], the same similarity with the arguments
\* exchanged, and similarity 1 when both arguments are the same image
C32_CompareSymmetricInUnit ==
    (pc = "compared" /\ Decodes(pureIn[1]) /\ Decodes(pureIn[2])
        /\ Dx(pureIn[1]) = Dx(pureIn[2]) /\ Dy(pureIn[1]) = Dy(pureIn[2])) =>
        /\ pureOut.err = Nil
        /\ pureOut.totalCount >= 1
        /\ 0 <= pureOut.matchCount /\ pureOut.matchCount <= pureOut.totalCount
        /\ LET rev == CompareImages(pureIn[2], pureIn[1])
           IN  /\ rev.err = Nil
               /\ pureOut.matchCount * rev.totalCount = rev.matchCount * pureOut.totalCount
        /\ pureIn[1] = pureIn[2] => pureOut.matchCount = pureOut.totalCount

C32_Witness ==
    /\ pc = "compared" /\ pureIn = <<ImgC, ImgA>>
    /\ pureOut.err = Nil
    /\ 0 < pureOut.matchCount /\ pureOut.matchCount < pureOut.totalCount

\* C33: in a session with Mode = "detect" CreatePDF is never called and the
\* trimming and PDF steps are never reached; when capturePages returned without
\* error the session returns a result that carries its page count
C33_DetectModeMakesNoPDF ==
    opt.Mode = "detect" =>
        /\ pdfInput = <<>>
        /\ pc \notin {"trim", "pdf"}
        /\ (pc = "done" /\ capRet.err = Nil /\ result.err = Nil) =>
               /\ result.returned /\ result.ok
               /\ result.PageCount = capRet.pageCount

C33_Witness ==
    /\ opt.Mode = "detect" /\ pc = "done"
    /\ result.returned /\ result.ok /\ endCheck.declared
    /\ result.PageCount >= 2 /\ pdfInput = <<>>

\* C34: a call of TurnNextPage hands a key code to System Events only when its
\* own foreground check returned true without error; when that check returned
\* false or failed, the call returns an error and sends no key event
C34_KeyOnlyWhenForeground ==
    pc = "automation" =>
        \A i \in 1..Len(pureOut) :
            LET call == pureOut[i]
            IN  /\ call.keys # <<>> => (call.fg.inForeground /\ call.fg.err = Nil)
                /\ (~call.fg.inForeground \/ call.fg.err # Nil) =>
                       call.err # Nil /\ call.keys = <<>>
                /\ call.keys \in {<<>>, <<keyCode(call.direction)>>}

C34_Witness ==
    /\ pc = "automation" /\ Len(pureOut) = 3
    /\ pureOut[1].keys = <<123>> /\ pureOut[1].err = Nil
    /\ ~pureOut[2].fg.inForeground /\ pureOut[2].fg.err = Nil
    /\ pureOut[2].err = ENotForeground /\ pureOut[2].keys = <<>>
    /\ pureOut[3].fg.err # Nil /\ pureOut[3].err # Nil /\ pureOut[3].keys = <<>>

C36_RecoveredProblemsAreWarned ==
    (result.returned /\ result.ok) =>
        /\ hasCustomTrim(opt) =>
               Len(result.Warnings) >=
                   Cardinality({i \in 1..Len(trimmedScreenshots) :
                                   trimmedScreenshots[i] = capRet.screenshots[i]})
        /\ Len(result.Warnings) >=
               Cardinality({i \in 1..Len(capRet.screenshots) :
                               /\ capRet.screenshots[i] = Shot("page", i, ImgDummy)})

\* C37: in generate mode the trimming step and CreatePDF are reached, and a
\* result is returned, only after the capture loop ended by end detection; when
\* capturePages returned an error (page limit, cancellation, failed capture or
\* page turn) CreatePDF is not called and no result is returned
C37_PDFOnlyAfterEndDetection ==
    /\ (opt.Mode = "generate"
          /\ (pc \in {"trim", "pdf"} \/ pdfInput # <<>> \/ (result.returned /\ result.ok))) =>
           /\ endCheck.declared
           /\ capRet.err = Nil
    /\ (pc = "done" /\ capRet.err # Nil) =>
           /\ pdfInput = <<>>
           /\ result.returned /\ ~result.ok /\ result.err # Nil

C37_Witness ==
    /\ pc = "done" /\ opt.Mode = "generate" /\ probeOutcome = "skipped"
    /\ result.returned /\ result.ok
    /\ endCheck.declared /\ capRet.err = Nil
    /\ pdfInput = <<capRet.screenshots>> /\ Len(capRet.screenshots) >= 1

\* C38: when the probe has taken all captures of the key under test and some
\* consecutive pair of them cannot be compared (CompareImages returns an error)
\* or has different dimensions, that pair counts with similarity 0, below 0.90:
\* the probe returns the key under test as the direction, with those captures
C38_UncomparablePairConfirms ==
    [][ LET paths == Append(probe.paths, lastShot)
            uncomparable(i) ==
                LET a == ImgOf(paths[i - 1])
                    b == ImgOf(paths[i])
                IN  \/ CompareImages(a, b).err # Nil
                    \/ (Decodes(a) /\ Decodes(b) /\ (Dx(a) # Dx(b) \/ Dy(a) # Dy(b)))
        IN  (/\ rpc = "ret" /\ caller = "detect_cap" /\ rerr = Nil /\ probe.i = ProbePresses
             /\ (pc' # pc \/ caller' # caller)
             /\ \E i \in 2..Len(paths) : uncomparable(i)) =>
                /\ \A i \in 2..Len(paths) :
                       uncomparable(i) =>
                           CompareImages(ImgOf(paths[i - 1]), ImgOf(paths[i])).matchCount = 0
                /\ probeOutcome' = probe.dir
                /\ direction' = probe.dir
                /\ screenshots' = paths
                /\ pc' = "activate" ]_vars

C38_Witness ==
    /\ pc = "activate" /\ probeOutcome = "left" /\ direction = "left"
    /\ Len(screenshots) = ProbePresses + 1
    /\ ImgOf(screenshots[1]) = ImgA /\ ImgOf(screenshots[2]) = ImgWide
    /\ CompareImages(ImgA, ImgWide).err = Nil
    /\ CompareImages(ImgA, ImgWide).matchCount = 0

====
